---- MODULE Spec2Model ----
(***************************************************************************)
(* The DAW operation log of evil_chat_server: the submit-operations route  *)
(* (src/src/routes/projects.ts) over the tables project_ops and            *)
(* project_snapshot (src/db/migrations/0001_init.js).  Every await on the  *)
(* store is a suspension point: one action is one store statement plus the *)
(* synchronous code the handler runs on its result.                        *)
(***************************************************************************)
EXTENDS Integers, Sequences, FiniteSets, TLC

\* ---------------------------------------------------------------- bounds
MaxInFlight == 2     \* handler invocations that may be in flight at once
MaxBatch == 2        \* longest operation batch of one submission
MaxBatches == 2      \* batches composed in one run, all clients together
MaxBase == 2         \* largest baseVersion a client makes up by itself
MaxStart == 1        \* longest log already stored when a race scenario starts

\* ------------------------------------------------------ program constants
SuspiciousVersion == 1000000

\* a lane holds one invocation of a handler from its request to its response, and
\* the response until the lane takes the next request
Clients == 1..MaxInFlight
ProjectIds == {1, 2}
NoRow == [absent |-> TRUE]
NoRes == [status |-> 0]

VARIABLES projects, project_snapshot, project_ops, req, batchNo, archived, project_names

\* the realtime side (src/src/websocket/socketHandlers.ts)
VARIABLES userSessions, serverOnlineUsers, sockets, emitted, voice_sessions, messages, clock

dawVars == <<projects, project_snapshot, project_ops, req, batchNo, archived, project_names>>
rtVars == <<userSessions, serverOnlineUsers, sockets, emitted, voice_sessions, messages, clock>>
vars == <<projects, project_snapshot, project_ops, req, batchNo, archived, project_names,
          userSessions, serverOnlineUsers, sockets, emitted, voice_sessions, messages, clock>>

\* ------------------------------------------------------------ the store
\* JSON.stringify(op) on the way in, the JSONB column parsed on the way out
JsonStringify(op) == <<"json", op>>
JsonParse(text) == text[2]

\* the value of the initial snapshot_json: an empty project state
InitialState(projectId) == [projectId |-> projectId, version |-> 0, tracks |-> <<>>]

SnapshotRow(projectId) ==
    [snapshot_json |-> JsonParse(JsonStringify(InitialState(projectId))), version_int |-> 0]

\* rows of project_ops that belong to one project, in insertion order
OpsOf(table, projectId) == SelectSeq(table, LAMBDA row : row.project_id = projectId)

\* archived: project 1 holds, besides the rows listed in project_ops, rows at
\* the versions 1..archived (a long history is not spelled out row by row)
ArchivedOf(projectId) == IF projectId = 1 THEN archived ELSE 0

ListedVersions(table, projectId) ==
    {table[i].version_int : i \in {j \in DOMAIN table : table[j].project_id = projectId}}

VersionsOf(table, projectId) ==
    ListedVersions(table, projectId) \cup 1..ArchivedOf(projectId)

SetMax(S) == CHOOSE m \in S : \A x \in S : x <= m

\* knex('project_ops').where('project_id', p).max('version_int'): null on no row
NoMax == -1
MaxVersionRow(table, projectId) ==
    LET listed == ListedVersions(table, projectId)
        top == IF listed = {} THEN 0 ELSE SetMax(listed)
    IN  IF listed = {} /\ ArchivedOf(projectId) = 0 THEN NoMax
        ELSE IF top > ArchivedOf(projectId) THEN top ELSE ArchivedOf(projectId)

\* the high-water mark of a project's log, 0 when the log is empty
HighWater(table, projectId) ==
    IF MaxVersionRow(table, projectId) = NoMax THEN 0 ELSE MaxVersionRow(table, projectId)

\* currentVersion as the handler derives it from the max row
CurrentVersion(table, projectId) ==
    LET raw == MaxVersionRow(table, projectId)
    IN  IF raw = NoMax THEN 0
        ELSE IF raw > SuspiciousVersion THEN 0 ELSE raw

\* newCurrentVersion of the duplicate-key branch (no plausibility reset there)
NewCurrentVersion_Stale(table, r) == r.currentVersion
NewCurrentVersion(table, r) ==
    LET raw == MaxVersionRow(table, r.projectId)
    IN  IF raw = NoMax THEN 0 ELSE raw

\* UNIQUE (project_id, version_int)
DuplicateKey_NoConstraint(table, rows) == FALSE
DuplicateKey(table, rows) ==
    \E i \in DOMAIN rows :
        \/ rows[i].version_int <= ArchivedOf(rows[i].project_id)
        \/ \E j \in DOMAIN table :
              /\ table[j].project_id = rows[i].project_id
              /\ table[j].version_int = rows[i].version_int

\* a multi-row INSERT is one statement: on a duplicate key no row of it stays
FailedInsert_Partial(table, rows) ==
    table \o SelectSeq(rows, LAMBDA row : ~DuplicateKey(table, <<row>>))
FailedInsert(table, rows) == table

\* ------------------------------------------------------- the submission
\* if (baseVersion > currentVersion)
ClientAhead(baseVersion, currentVersion) == baseVersion > currentVersion

OpsToInsert_FromBase(r) ==
    [idx \in 1..Len(r.ops) |->
        [project_id |-> r.projectId,
         version_int |-> r.baseVersion + idx,
         op_json |-> JsonParse(JsonStringify(r.ops[idx]))]]
OpsToInsert_OffByOne(r) ==
    [idx \in 1..Len(r.ops) |->
        [project_id |-> r.projectId,
         version_int |-> r.currentVersion + idx + 1,
         op_json |-> JsonParse(JsonStringify(r.ops[idx]))]]
\* ops.map((op, idx) => ... currentVersion + idx + 1), idx counted from 0 there
OpsToInsert(r) ==
    [idx \in 1..Len(r.ops) |->
        [project_id |-> r.projectId,
         version_int |-> r.currentVersion + (idx - 1) + 1,
         op_json |-> JsonParse(JsonStringify(r.ops[idx]))]]

NoOpsToInsert_Never(rows) == FALSE
NoOpsToInsert(rows) == Len(rows) = 0

\* const newVersion = currentVersion + opsToInsert.length
NewVersion_PastEnd(r) == r.currentVersion + Len(OpsToInsert(r)) + 1
NewVersion(r) == r.currentVersion + Len(OpsToInsert(r))

ConflictAhead_ReportsBase(r, currentVersion) ==
    [status |-> 409, error |-> "VERSION_CONFLICT",
     message |-> "Client version is ahead of server",
     serverVersion |-> r.baseVersion, clientBaseVersion |-> r.baseVersion]
ConflictAhead(r, currentVersion) ==
    [status |-> 409, error |-> "VERSION_CONFLICT",
     message |-> "Client version is ahead of server",
     serverVersion |-> currentVersion, clientBaseVersion |-> r.baseVersion]

ConflictRaced(r, newCurrentVersion) ==
    [status |-> 409, error |-> "VERSION_CONFLICT",
     message |-> "Another client inserted operations first",
     serverVersion |-> newCurrentVersion, clientBaseVersion |-> r.baseVersion]

Applied(newVersion, appliedCount) ==
    [status |-> 200, newVersion |-> newVersion, appliedCount |-> appliedCount]

NotFound == [status |-> 404, error |-> "PROJECT_NOT_FOUND"]
InternalError == [status |-> 500, error |-> "INTERNAL_ERROR"]

\* a batch of n operations; an operation carries its client and its own id
Batch(c, b, n) == [idx \in 1..n |-> [clientId |-> c, id |-> <<b, idx>>]]

IdleReq ==
    [pc |-> "idle", route |-> "none", projectId |-> 0, baseVersion |-> 0, ops |-> <<>>,
     currentVersion |-> 0, resubmit |-> FALSE, res |-> NoRes]

Settled(c) == req[c].pc \in {"idle", "done"}

\* res.status(..).json(..): the handler is over, the client holds the response
Respond_KeepsRunning(c, response) ==
    req' = [req EXCEPT ![c].res = response]
Respond(c, response) ==
    req' = [req EXCEPT ![c].pc = "done", ![c].res = response]

\* no socket has connected yet, nobody is online, no voice session is stored
RtQuiet ==
    /\ userSessions = <<>>
    /\ serverOnlineUsers = <<>>
    /\ sockets = <<>>
    /\ emitted = <<>>
    /\ voice_sessions = <<>>
    /\ messages = <<>>
    /\ clock = 0

\* project 1 was created together with its snapshot at version 0 (POST /); no
\* project has id 2
Init ==
    /\ projects = {1}
    /\ project_snapshot = [p \in ProjectIds |-> IF p \in {1} THEN SnapshotRow(p) ELSE NoRow]
    /\ project_ops = <<>>
    /\ req = [c \in Clients |-> IdleReq]
    /\ batchNo = 0
    /\ archived = 0
    /\ project_names = [p \in projects |-> "Untitled"]
    /\ RtQuiet

\* POST /:projectId/daw/ops arrives with a batch the client has just composed;
\* invocations have no identity of their own, it takes the lowest free lane
Submit(c, projectId, baseVersion, n) ==
    /\ Settled(c)
    /\ \A d \in Clients : d < c => ~Settled(d)
    /\ batchNo < MaxBatches
    /\ batchNo' = batchNo + 1
    /\ req' = [req EXCEPT ![c] =
                 [pc |-> "project", route |-> "submit", projectId |-> projectId,
                  baseVersion |-> baseVersion, ops |-> Batch(c, batchNo + 1, n),
                  currentVersion |-> 0, resubmit |-> FALSE, res |-> NoRes]]
    /\ UNCHANGED <<projects, project_snapshot, project_ops>>
    /\ UNCHANGED <<archived, project_names, rtVars>>

\* the client answers a VERSION_CONFLICT by sending the same batch again with
\* baseVersion set to the serverVersion it was told
Resubmit(c) ==
    /\ req[c].pc = "done"
    /\ req[c].route = "submit"
    /\ req[c].res.status = 409
    /\ req' = [req EXCEPT ![c] =
                 [pc |-> "project", route |-> "submit", projectId |-> req[c].projectId,
                  baseVersion |-> req[c].res.serverVersion, ops |-> req[c].ops,
                  currentVersion |-> 0, resubmit |-> TRUE, res |-> NoRes]]
    /\ UNCHANGED <<projects, project_snapshot, project_ops, batchNo>>
    /\ UNCHANGED <<archived, project_names, rtVars>>

\* "Check access": knex('projects').where('id', projectId).first()
CheckProject(c) ==
    /\ req[c].pc = "project"
    /\ IF req[c].projectId \in projects
         THEN req' = [req EXCEPT ![c].pc =
                        IF req[c].route = "submit" THEN "maxOp"
                        ELSE IF req[c].route = "ops" THEN "selectOps" ELSE "snapshot"]
         ELSE Respond(c, NotFound)
    /\ UNCHANGED <<projects, project_snapshot, project_ops, batchNo>>
    /\ UNCHANGED <<archived, project_names, rtVars>>

\* "Get current max version", the version check and the empty-batch return
ReadMaxVersion(c) ==
    /\ req[c].pc = "maxOp"
    /\ LET currentVersion == CurrentVersion(project_ops, req[c].projectId)
           r == [req[c] EXCEPT !.currentVersion = currentVersion]
       IN  IF ClientAhead(r.baseVersion, currentVersion)
             THEN req' = [req EXCEPT ![c] =
                            [r EXCEPT !.pc = "done", !.res = ConflictAhead(r, currentVersion)]]
             ELSE IF NoOpsToInsert(OpsToInsert(r))
               THEN req' = [req EXCEPT ![c] =
                              [r EXCEPT !.pc = "done", !.res = Applied(currentVersion, 0)]]
               ELSE req' = [req EXCEPT ![c] = [r EXCEPT !.pc = "insert"]]
    /\ UNCHANGED <<projects, project_snapshot, project_ops, batchNo>>
    /\ UNCHANGED <<archived, project_names, rtVars>>

\* knex('project_ops').insert(opsToInsert)
InsertOps(c) ==
    /\ req[c].pc = "insert"
    /\ IF DuplicateKey(project_ops, OpsToInsert(req[c]))
         THEN /\ project_ops' = FailedInsert(project_ops, OpsToInsert(req[c]))
              /\ req' = [req EXCEPT ![c].pc = "maxOpRetry"]
         ELSE /\ project_ops' = project_ops \o OpsToInsert(req[c])
              /\ req' = [req EXCEPT ![c].pc = "updateSnapshot"]
    /\ UNCHANGED <<projects, project_snapshot, batchNo>>
    /\ UNCHANGED <<archived, project_names, rtVars>>

\* the duplicate-key branch: read the max again and answer VERSION_CONFLICT
ReadMaxRetry(c) ==
    /\ req[c].pc = "maxOpRetry"
    /\ Respond(c, ConflictRaced(req[c], NewCurrentVersion(project_ops, req[c])))
    /\ UNCHANGED <<projects, project_snapshot, project_ops, batchNo>>
    /\ UNCHANGED <<archived, project_names, rtVars>>

\* knex('project_snapshot').where('project_id', p).update({version_int: newVersion})
UpdateSnapshot(c) ==
    /\ req[c].pc = "updateSnapshot"
    /\ project_snapshot' =
         IF project_snapshot[req[c].projectId] = NoRow
           THEN project_snapshot
           ELSE [project_snapshot EXCEPT ![req[c].projectId].version_int = NewVersion(req[c])]
    /\ Respond(c, Applied(NewVersion(req[c]), Len(OpsToInsert(req[c]))))
    /\ UNCHANGED <<projects, project_ops, batchNo>>
    /\ UNCHANGED <<archived, project_names, rtVars>>

\* -------------------------------------------- GET /:projectId/daw handler
\* (a read is one of the MaxBatches requests of a run)
GetDaw(c, projectId) ==
    /\ Settled(c)
    /\ \A d \in Clients : d < c => ~Settled(d)
    /\ batchNo < MaxBatches
    /\ batchNo' = batchNo + 1
    /\ req' = [req EXCEPT ![c] =
                 [IdleReq EXCEPT !.pc = "project", !.route = "daw", !.projectId = projectId]]
    /\ UNCHANGED <<projects, project_snapshot, project_ops>>
    /\ UNCHANGED <<archived, project_names, rtVars>>

\* "Get or create snapshot": the select
ReadSnapshot(c) ==
    /\ req[c].pc = "snapshot"
    /\ LET snapshot == project_snapshot[req[c].projectId]
       IN  IF snapshot = NoRow
             THEN req' = [req EXCEPT ![c].pc = "insertSnapshot"]
             ELSE Respond(c, [status |-> 200, snapshot |-> snapshot.snapshot_json,
                              version |-> snapshot.version_int])
    /\ UNCHANGED <<projects, project_snapshot, project_ops, batchNo>>
    /\ UNCHANGED <<archived, project_names, rtVars>>

\* the insert of the initial snapshot; project_id is the primary key
InsertSnapshot(c) ==
    /\ req[c].pc = "insertSnapshot"
    /\ IF project_snapshot[req[c].projectId] = NoRow
         THEN /\ project_snapshot' =
                   [project_snapshot EXCEPT ![req[c].projectId] = SnapshotRow(req[c].projectId)]
              /\ Respond(c, [status |-> 200,
                             snapshot |-> InitialState(req[c].projectId), version |-> 0])
         ELSE /\ project_snapshot' = project_snapshot
              /\ Respond(c, InternalError)
    /\ UNCHANGED <<projects, project_ops, batchNo>>
    /\ UNCHANGED <<archived, project_names, rtVars>>

\* ---------------------------------------- GET /:projectId/daw/ops handler
GetOps(c, projectId) ==
    /\ Settled(c)
    /\ \A d \in Clients : d < c => ~Settled(d)
    /\ batchNo < MaxBatches
    /\ batchNo' = batchNo + 1
    /\ req' = [req EXCEPT ![c] =
                 [IdleReq EXCEPT !.pc = "project", !.route = "ops", !.projectId = projectId]]
    /\ UNCHANGED <<projects, project_snapshot, project_ops>>
    /\ UNCHANGED <<archived, project_names, rtVars>>

\* .orderBy('version_int', 'asc')
RECURSIVE OrderByVersion(_)
OrderByVersion(rows) ==
    IF rows = <<>> THEN <<>>
    ELSE LET i == CHOOSE i \in DOMAIN rows :
                      \A j \in DOMAIN rows : rows[i].version_int <= rows[j].version_int
         IN  <<rows[i]>> \o OrderByVersion(SubSeq(rows, 1, i - 1) \o SubSeq(rows, i + 1, Len(rows)))

\* latestVersion: the version of the last row fetched, 0 on no row
LatestVersion_OfFirst(ops) == IF Len(ops) > 0 THEN ops[1].version_int ELSE 0
LatestVersion(ops) == IF Len(ops) > 0 THEN ops[Len(ops)].version_int ELSE 0

OpsRead(projectId, ops) ==
    [status |-> 200, projectId |-> projectId,
     operations |-> [i \in DOMAIN ops |-> ops[i].op_json],
     version |-> LatestVersion(ops)]

\* "Fetch all operations in order" and the response
SelectOps(c) ==
    /\ req[c].pc = "selectOps"
    /\ Respond(c, OpsRead(req[c].projectId,
                          OrderByVersion(OpsOf(project_ops, req[c].projectId))))
    /\ UNCHANGED <<projects, project_snapshot, project_ops, batchNo>>
    /\ UNCHANGED <<archived, project_names, rtVars>>

Next ==
    \/ \E c \in Clients, p \in ProjectIds, b \in 0..MaxBase, n \in 0..MaxBatch : Submit(c, p, b, n)
    \/ \E c \in Clients : CheckProject(c)
    \/ \E c \in Clients : ReadMaxVersion(c)
    \/ \E c \in Clients : InsertOps(c)
    \/ \E c \in Clients : ReadMaxRetry(c)
    \/ \E c \in Clients : UpdateSnapshot(c)

Spec == Init /\ [][Next]_vars

\* ------------------------------------------------------ the race scenario
\* Two clients that hold the same baseVersion send their batches to project 1
\* at the same moment; a client told VERSION_CONFLICT sends its batch again.
\* The log already holds StartVersion operations of an earlier client 0.
EarlierOps(n) ==
    [i \in 1..n |-> [project_id |-> 1, version_int |-> i,
                     op_json |-> [clientId |-> 0, id |-> <<0, i>>]]]

InitRace ==
    \E v0 \in 0..MaxStart :
        /\ projects = {1}
        /\ project_snapshot =
             [p \in ProjectIds |->
                 IF p = 1 THEN [SnapshotRow(p) EXCEPT !.version_int = v0] ELSE NoRow]
        /\ project_ops = EarlierOps(v0)
        /\ req = [c \in Clients |-> IdleReq]
        /\ batchNo = 0
        /\ archived = 0
        /\ project_names = [p \in projects |-> "Untitled"]
        /\ RtQuiet

RaceSubmit(c, d, baseVersion, n, m) ==
    /\ c < d
    /\ \A x \in Clients : req[x].pc = "idle"
    /\ baseVersion <= HighWater(project_ops, 1)
    /\ batchNo' = 2
    /\ req' = [req EXCEPT
                 ![c] = [pc |-> "project", route |-> "submit", projectId |-> 1,
                         baseVersion |-> baseVersion, ops |-> Batch(c, 1, n),
                         currentVersion |-> 0, resubmit |-> FALSE, res |-> NoRes],
                 ![d] = [pc |-> "project", route |-> "submit", projectId |-> 1,
                         baseVersion |-> baseVersion, ops |-> Batch(d, 2, m),
                         currentVersion |-> 0, resubmit |-> FALSE, res |-> NoRes]]
    /\ UNCHANGED <<projects, project_snapshot, project_ops>>
    /\ UNCHANGED <<archived, project_names, rtVars>>

NextRace ==
    \/ \E c, d \in Clients, b \in 0..MaxBase, n, m \in 1..MaxBatch : RaceSubmit(c, d, b, n, m)
    \/ \E c \in Clients : Resubmit(c)
    \/ \E c \in Clients : CheckProject(c)
    \/ \E c \in Clients : ReadMaxVersion(c)
    \/ \E c \in Clients : InsertOps(c)
    \/ \E c \in Clients : ReadMaxRetry(c)
    \/ \E c \in Clients : UpdateSnapshot(c)

SpecRace == InitRace /\ [][NextRace]_vars

\* the store answers every call a handler waits on
StoreAnswers(c) ==
    /\ WF_vars(CheckProject(c))
    /\ WF_vars(ReadMaxVersion(c))
    /\ WF_vars(InsertOps(c))
    /\ WF_vars(ReadMaxRetry(c))
    /\ WF_vars(UpdateSnapshot(c))

SpecRaceLive == SpecRace /\ \A c \in Clients : StoreAnswers(c)

\* ------------------------------------------------ the store seen whole
\* Project 1 exists. Either it has no snapshot row yet and no operation (the
\* handler of GET /:projectId/daw creates the row on demand), or it was
\* created with its snapshot and holds up to MaxStart operations of an earlier
\* client 0. No project has id 2. Clients submit batches, read the log and
\* read the snapshot.
InitStore ==
    \E v0 \in 0..MaxStart, created \in BOOLEAN :
        /\ ~created => v0 = 0
        /\ projects = {1}
        /\ project_snapshot =
             [p \in ProjectIds |->
                 IF p = 1 /\ created THEN [SnapshotRow(p) EXCEPT !.version_int = v0]
                 ELSE NoRow]
        /\ project_ops = EarlierOps(v0)
        /\ req = [c \in Clients |-> IdleReq]
        /\ batchNo = 0
        /\ archived = 0
        /\ project_names = [p \in projects |-> "Untitled"]
        /\ RtQuiet

NextStore ==
    \/ \E c \in Clients, p \in ProjectIds, n \in 0..MaxBatch :
          Submit(c, p, HighWater(project_ops, p), n)
    \/ \E c \in Clients, p \in ProjectIds : GetOps(c, p)
    \/ \E c \in Clients, p \in ProjectIds : GetDaw(c, p)
    \/ \E c \in Clients : CheckProject(c)
    \/ \E c \in Clients : ReadMaxVersion(c)
    \/ \E c \in Clients : InsertOps(c)
    \/ \E c \in Clients : ReadMaxRetry(c)
    \/ \E c \in Clients : UpdateSnapshot(c)
    \/ \E c \in Clients : SelectOps(c)
    \/ \E c \in Clients : ReadSnapshot(c)
    \/ \E c \in Clients : InsertSnapshot(c)

SpecStore == InitStore /\ [][NextStore]_vars

\* ------------------------------------------------- the long-lived document
\* Project 1 has been edited for a long time: its log holds the versions
\* 1..archived, archived within NearLimit of SuspiciousVersion, and its snapshot
\* row is level with the log. One client at a time submits: besides the small
\* base versions, the log's high-water mark and the version after it.
NearLimit == 1

InitLong ==
    \E k \in 0..NearLimit :
        /\ projects = {1}
        /\ project_snapshot =
             [p \in ProjectIds |->
                 IF p = 1 THEN [SnapshotRow(p) EXCEPT !.version_int = SuspiciousVersion - k]
                 ELSE NoRow]
        /\ project_ops = <<>>
        /\ req = [c \in Clients |-> IdleReq]
        /\ batchNo = 0
        /\ archived = SuspiciousVersion - k
        /\ project_names = [p \in projects |-> "Untitled"]
        /\ RtQuiet

LongBases == (0..MaxBase) \cup {HighWater(project_ops, 1), HighWater(project_ops, 1) + 1}

NextLong ==
    \/ \E b \in LongBases, n \in 0..MaxBatch : Submit(1, 1, b, n)
    \/ Resubmit(1)
    \/ CheckProject(1)
    \/ ReadMaxVersion(1)
    \/ InsertOps(1)
    \/ ReadMaxRetry(1)
    \/ UpdateSnapshot(1)

SpecLong == InitLong /\ [][NextLong]_vars

\* ================================================== the realtime side
\* src/src/websocket/socketHandlers.ts: sockets connect, authenticate into a
\* server room, and disconnect. userSessions maps socket.id to the session,
\* serverOnlineUsers maps serverId to a map from userId to connection count.
MaxSockets == 2      \* sockets that connect in one run
MaxAuths == 2        \* "auth" events sent in one run, all sockets together

UserIds == {"alice", "bob"}
ServerIds == {1, 2}
\* the rows the handlers read; bob is no member of server 2
users == [u \in UserIds |-> [username |-> u, display_name |-> u]]
server_memberships == {<<"alice", 1>>, <<"alice", 2>>, <<"bob", 1>>}

\* Map.get / Map.set / Map.delete / Map.has on a map kept as a function
MapHas(map, key) == key \in DOMAIN map
MapSet(map, key, value) == [k \in DOMAIN map \cup {key} |-> IF k = key THEN value ELSE map[k]]
MapDelete(map, key) == [k \in DOMAIN map \ {key} |-> map[k]]

NoAuth == [pc |-> "idle", userId |-> "", serverId |-> 0]
NoSession == [userId |-> "", serverId |-> 0]
Room(serverId) == <<"server", serverId>>

\* left_at of a session that has not ended; a handler that holds no timestamp
NullTime == -1
\* the voice:join, voice:leave and message:send handlers of a socket at rest
NoJoin == [pc |-> "idle", channelId |-> 0, session |-> NoSession, joined_at |-> NullTime,
           participants |-> <<>>]
NoLeave == [pc |-> "idle", channelId |-> 0, session |-> NoSession, left_at |-> NullTime,
            participants |-> <<>>]
NoSend == [pc |-> "idle", channelId |-> 0, session |-> NoSession, content |-> "",
           stamp |-> NullTime, id |-> 0, createdAt |-> NullTime]

\* io.on("connection"): a socket with its handlers; it has sent nothing yet
NewSocket ==
    [open |-> TRUE, auths |-> 0, auth |-> NoAuth, disconnect |-> "idle",
     session |-> NoSession, left_at |-> NullTime, rooms |-> {}, sync |-> {}, ack |-> "none",
     voices |-> 0, join |-> NoJoin, leave |-> NoLeave, voiceAck |-> "none",
     sends |-> 0, send |-> NoSend, sendAck |-> "none"]

AuthsSent == LET RECURSIVE Sum(_)
                 Sum(n) == IF n = 0 THEN 0 ELSE sockets[n].auths + Sum(n - 1)
             IN  Sum(Len(sockets))

Connect ==
    /\ Len(sockets) < MaxSockets
    /\ sockets' = Append(sockets, NewSocket)
    /\ UNCHANGED <<userSessions, serverOnlineUsers, emitted, voice_sessions, messages, clock>>
    /\ UNCHANGED dawVars

\* socket.on("auth"): the validation, then the membership query is sent;
\* userId "" stands for a request without userId
Auth(s, userId, serverId) ==
    /\ s \in DOMAIN sockets
    /\ sockets[s].open
    /\ sockets[s].auth.pc = "idle"
    /\ AuthsSent < MaxAuths
    /\ IF userId = ""
         THEN sockets' = [sockets EXCEPT ![s].auths = @ + 1, ![s].ack = "INVALID_REQUEST"]
         ELSE sockets' = [sockets EXCEPT ![s].auths = @ + 1, ![s].ack = "none",
                            ![s].auth = [pc |-> "membership", userId |-> userId,
                                         serverId |-> serverId]]
    /\ UNCHANGED <<userSessions, serverOnlineUsers, emitted, voice_sessions, messages, clock>>
    /\ UNCHANGED dawVars

\* "Verify user is a member of the server"
AuthMembership(s) ==
    /\ s \in DOMAIN sockets
    /\ sockets[s].auth.pc = "membership"
    /\ IF <<sockets[s].auth.userId, sockets[s].auth.serverId>> \in server_memberships
         THEN sockets' = [sockets EXCEPT ![s].auth.pc = "user"]
         ELSE sockets' = [sockets EXCEPT ![s].auth = NoAuth, ![s].ack = "FORBIDDEN"]
    /\ UNCHANGED <<userSessions, serverOnlineUsers, emitted, voice_sessions, messages, clock>>
    /\ UNCHANGED dawVars

\* serverOnlineUsers.get(serverId) ?? new Map()
ServerMapOf(online, serverId) == IF MapHas(online, serverId) THEN online[serverId] ELSE <<>>
\* serverMap.get(userId) ?? 0
CountOf(serverMap, userId) == IF MapHas(serverMap, userId) THEN serverMap[userId] ELSE 0

\* "Track online users for this server"
Registered_FromZero(online, serverId, userId) ==
    MapSet(online, serverId, MapSet(ServerMapOf(online, serverId), userId, 1))
Registered(online, serverId, userId) ==
    LET serverMap == ServerMapOf(online, serverId)
        prevCount == CountOf(serverMap, userId)
    IN  MapSet(online, serverId, MapSet(serverMap, userId, prevCount + 1))

\* "Broadcast user joined only on first connection"
FirstConnection_Always(prevCount) == TRUE
FirstConnection(prevCount) == prevCount = 0

UserOnline(serverId, userId) ==
    [room |-> Room(serverId), event |-> "user:online",
     payload |-> [userId |-> userId, username |-> users[userId].username,
                  displayName |-> users[userId].display_name]]
UserOffline(serverId, userId) ==
    [room |-> Room(serverId), event |-> "user:offline", payload |-> [userId |-> userId]]

\* "Get user info", then the session is stored, the connection counted, the
\* room joined and the room told
AuthUser(s) ==
    /\ s \in DOMAIN sockets
    /\ sockets[s].auth.pc = "user"
    /\ LET userId == sockets[s].auth.userId
           serverId == sockets[s].auth.serverId
           prevCount == CountOf(ServerMapOf(serverOnlineUsers, serverId), userId)
       IN  IF userId \in DOMAIN users
             THEN /\ userSessions' = MapSet(userSessions, s, [userId |-> userId, serverId |-> serverId])
                  /\ serverOnlineUsers' = Registered(serverOnlineUsers, serverId, userId)
                  /\ emitted' = IF FirstConnection(prevCount)
                                  THEN Append(emitted, UserOnline(serverId, userId))
                                  ELSE emitted
                  /\ sockets' = [sockets EXCEPT
                                   ![s].auth = NoAuth,
                                   ![s].rooms = @ \cup {Room(serverId)},
                                   ![s].sync = DOMAIN Registered(serverOnlineUsers, serverId, userId)[serverId],
                                   ![s].ack = "success"]
             ELSE /\ sockets' = [sockets EXCEPT ![s].auth = NoAuth, ![s].ack = "USER_NOT_FOUND"]
                  /\ UNCHANGED <<userSessions, serverOnlineUsers, emitted>>
    /\ UNCHANGED <<voice_sessions, messages, clock>>
    /\ UNCHANGED dawVars

\* if (session) { ... }: without session the disconnect handler is over at once
Teardown_Always(sessions, s) == "cleanup"
Teardown(sessions, s) == IF MapHas(sessions, s) THEN "cleanup" ELSE "done"

\* socket.on("disconnect"): the session is looked up and, if there is one, the
\* update of the user's open voice sessions is sent, left_at being the time now
Disconnect(s) ==
    /\ s \in DOMAIN sockets
    /\ sockets[s].open
    /\ sockets' = [sockets EXCEPT
                     ![s].open = FALSE,
                     ![s].disconnect = Teardown(userSessions, s),
                     ![s].session = IF MapHas(userSessions, s) THEN userSessions[s] ELSE NoSession,
                     ![s].left_at = IF MapHas(userSessions, s) THEN clock ELSE NullTime]
    /\ UNCHANGED <<userSessions, serverOnlineUsers, emitted, voice_sessions, messages, clock>>
    /\ UNCHANGED dawVars

\* CONSTRAINT voice_sessions_left_after_join CHECK (left_at IS NULL OR left_at >= joined_at)
LeftAfterJoin_Unchecked(row) == TRUE
LeftAfterJoin(row) == row.left_at = NullTime \/ row.left_at >= row.joined_at
\* an update is refused as a whole if one row it writes breaks the constraint
Refused(table) == \E i \in DOMAIN table : ~LeftAfterJoin(table[i])

\* .where("user_id", userId).whereNull("left_at").update({ left_at: new Date() })
CloseSessions(table, userId, now) ==
    [i \in DOMAIN table |->
        IF table[i].user_id = userId /\ table[i].left_at = NullTime
          THEN [table[i] EXCEPT !.left_at = now] ELSE table[i]]

\* Math.max(0, prevCount - 1)
NextCount(prevCount) == IF prevCount - 1 > 0 THEN prevCount - 1 ELSE 0

\* "only emit offline when last connection leaves"
LastConnection_Always(nextCount) == TRUE
LastConnection(nextCount) == nextCount = 0

\* if (onlineUsers.size === 0) serverOnlineUsers.delete(serverId)
DropEmpty_Keeps(online, serverId) == online
DropEmpty(online, serverId) ==
    IF DOMAIN online[serverId] = {} THEN MapDelete(online, serverId) ELSE online

\* "Remove from online tracking"
Deregistered(online, serverId, userId) ==
    IF ~MapHas(online, serverId) THEN online
    ELSE LET onlineUsers == online[serverId]
             nextCount == NextCount(CountOf(onlineUsers, userId))
         IN  DropEmpty(MapSet(online, serverId,
                              IF LastConnection(nextCount)
                                THEN MapDelete(onlineUsers, userId)
                                ELSE MapSet(onlineUsers, userId, nextCount)),
                       serverId)

\* the voice update has returned: the connection is uncounted, the room is
\* told if it was the last one, and the session is forgotten. The handler has
\* no try/catch: if the update was refused it ends there, with a rejection
DisconnectCleanup(s) ==
    /\ s \in DOMAIN sockets
    /\ sockets[s].disconnect = "cleanup"
    /\ LET session == sockets[s].session
           nextCount == NextCount(CountOf(ServerMapOf(serverOnlineUsers, session.serverId),
                                          session.userId))
           closed == CloseSessions(voice_sessions, session.userId, sockets[s].left_at)
       IN  IF Refused(closed)
             THEN /\ sockets' = [sockets EXCEPT ![s].disconnect = "rejected"]
                  /\ UNCHANGED <<voice_sessions, serverOnlineUsers, emitted, userSessions>>
             ELSE /\ voice_sessions' = closed
                  /\ serverOnlineUsers' =
                       Deregistered(serverOnlineUsers, session.serverId, session.userId)
                  /\ emitted' =
                       IF MapHas(serverOnlineUsers, session.serverId) /\ LastConnection(nextCount)
                         THEN Append(emitted, UserOffline(session.serverId, session.userId))
                         ELSE emitted
                  /\ userSessions' = MapDelete(userSessions, s)
                  /\ sockets' = [sockets EXCEPT ![s].disconnect = "done"]
    /\ UNCHANGED <<messages, clock>>
    /\ UNCHANGED dawVars

\* nothing of the DAW store is touched by the realtime side
DawQuiet ==
    /\ projects = {}
    /\ project_snapshot = [p \in ProjectIds |-> NoRow]
    /\ project_ops = <<>>
    /\ req = [c \in Clients |-> IdleReq]
    /\ batchNo = 0
    /\ archived = 0
    /\ project_names = [p \in projects |-> "Untitled"]

InitPresence == DawQuiet /\ RtQuiet

NextPresence ==
    \/ Connect
    \/ \E s \in 1..MaxSockets, u \in UserIds \cup {""}, v \in ServerIds : Auth(s, u, v)
    \/ \E s \in 1..MaxSockets : AuthMembership(s)
    \/ \E s \in 1..MaxSockets : AuthUser(s)
    \/ \E s \in 1..MaxSockets : Disconnect(s)
    \/ \E s \in 1..MaxSockets : DisconnectCleanup(s)

SpecPresence == InitPresence /\ [][NextPresence]_vars

\* ------------------------------------------------------- voice sessions
MaxVoice == 2        \* voice:join and voice:leave events sent in one run
MaxClock == 1        \* how far the clock advances in one run

\* the channels of server 1: channel 1 is a voice channel, channel 2 a text one
channels == {[id |-> 1, server_id |-> 1, type |-> "voice"],
             [id |-> 2, server_id |-> 1, type |-> "text"]}
ChannelIds == {1, 2}

VoiceSent == LET RECURSIVE Sum(_)
                 Sum(n) == IF n = 0 THEN 0 ELSE sockets[n].voices + Sum(n - 1)
             IN  Sum(Len(sockets))

\* time passes
Tick ==
    /\ clock < MaxClock
    /\ clock' = clock + 1
    /\ UNCHANGED <<userSessions, serverOnlineUsers, sockets, emitted, voice_sessions, messages>>
    /\ UNCHANGED dawVars

\* .where("id", channelId).andWhere("server_id", serverId).andWhere("type", "voice")
VoiceChannel(channelId, serverId) ==
    \E ch \in channels : ch.id = channelId /\ ch.server_id = serverId /\ ch.type = "voice"

\* the rows of a channel that have not ended, in table order
OpenRows(table, channelId) ==
    SelectSeq(table, LAMBDA row : row.channel_id = channelId /\ row.left_at = NullTime)

\* the roster query, one participant for each open session row, and its event
Participants(table, channelId) ==
    [i \in DOMAIN OpenRows(table, channelId) |->
        [id |-> OpenRows(table, channelId)[i].user_id,
         username |-> users[OpenRows(table, channelId)[i].user_id].username,
         displayName |-> users[OpenRows(table, channelId)[i].user_id].display_name]]
VoiceParticipants(serverId, channelId, participants) ==
    [room |-> Room(serverId), event |-> "voice:participants",
     payload |-> [channelId |-> channelId, participants |-> participants]]

\* socket.on("voice:join"): the session, the request, then the channel query
\* is sent; channelId 0 stands for a request without channelId
VoiceJoin(s, channelId) ==
    /\ s \in DOMAIN sockets
    /\ sockets[s].open
    /\ sockets[s].join.pc = "idle"
    /\ VoiceSent < MaxVoice
    /\ sockets' = [sockets EXCEPT
         ![s].voices = @ + 1,
         ![s].voiceAck = IF ~MapHas(userSessions, s) THEN "UNAUTHORIZED"
                         ELSE IF channelId = 0 THEN "INVALID_REQUEST" ELSE "none",
         ![s].join = IF MapHas(userSessions, s) /\ channelId # 0
                       THEN [NoJoin EXCEPT !.pc = "channel", !.channelId = channelId,
                                           !.session = userSessions[s]]
                       ELSE NoJoin]
    /\ UNCHANGED <<userSessions, serverOnlineUsers, emitted, voice_sessions, messages, clock>>
    /\ UNCHANGED dawVars

\* "Verify it's a voice channel"; the insert is sent with joined_at the time now
JoinChannel(s) ==
    /\ s \in DOMAIN sockets
    /\ sockets[s].join.pc = "channel"
    /\ IF VoiceChannel(sockets[s].join.channelId, sockets[s].join.session.serverId)
         THEN sockets' = [sockets EXCEPT ![s].join.pc = "insert", ![s].join.joined_at = clock]
         ELSE sockets' = [sockets EXCEPT ![s].join = NoJoin, ![s].voiceAck = "FORBIDDEN"]
    /\ UNCHANGED <<userSessions, serverOnlineUsers, emitted, voice_sessions, messages, clock>>
    /\ UNCHANGED dawVars

\* "Record voice session start"
JoinInsert(s) ==
    /\ s \in DOMAIN sockets
    /\ sockets[s].join.pc = "insert"
    /\ voice_sessions' = Append(voice_sessions,
          [id |-> Len(voice_sessions) + 1, channel_id |-> sockets[s].join.channelId,
           user_id |-> sockets[s].join.session.userId,
           joined_at |-> sockets[s].join.joined_at, left_at |-> NullTime])
    /\ sockets' = [sockets EXCEPT ![s].join.pc = "roster"]
    /\ UNCHANGED <<userSessions, serverOnlineUsers, emitted, messages, clock>>
    /\ UNCHANGED dawVars

\* the roster query of the join handler is run by the store
JoinRoster(s) ==
    /\ s \in DOMAIN sockets
    /\ sockets[s].join.pc = "roster"
    /\ sockets' = [sockets EXCEPT
         ![s].join.pc = "emit",
         ![s].join.participants = Participants(voice_sessions, sockets[s].join.channelId)]
    /\ UNCHANGED <<userSessions, serverOnlineUsers, emitted, voice_sessions, messages, clock>>
    /\ UNCHANGED dawVars

\* the roster has returned: "Broadcast voice participant update", then the
\* acknowledgement
JoinBroadcast(s) ==
    /\ s \in DOMAIN sockets
    /\ sockets[s].join.pc = "emit"
    /\ emitted' = Append(emitted,
          VoiceParticipants(sockets[s].join.session.serverId, sockets[s].join.channelId,
                            sockets[s].join.participants))
    /\ sockets' = [sockets EXCEPT ![s].join = NoJoin, ![s].voiceAck = "success"]
    /\ UNCHANGED <<userSessions, serverOnlineUsers, voice_sessions, messages, clock>>
    /\ UNCHANGED dawVars

\* .where("user_id", userId).andWhere("channel_id", channelId).whereNull("left_at")
\* .update({ left_at: new Date() })
CloseChannelSessions_Latest(table, userId, channelId, now) ==
    [i \in DOMAIN table |->
        IF /\ table[i].user_id = userId /\ table[i].channel_id = channelId
           /\ table[i].left_at = NullTime
           /\ \A j \in DOMAIN table :
                 (/\ table[j].user_id = userId /\ table[j].channel_id = channelId
                  /\ table[j].left_at = NullTime) => j <= i
          THEN [table[i] EXCEPT !.left_at = now] ELSE table[i]]
CloseChannelSessions(table, userId, channelId, now) ==
    [i \in DOMAIN table |->
        IF /\ table[i].user_id = userId /\ table[i].channel_id = channelId
           /\ table[i].left_at = NullTime
          THEN [table[i] EXCEPT !.left_at = now] ELSE table[i]]

\* socket.on("voice:leave"): the session, the request, then the update is
\* sent, left_at being the time now
VoiceLeave(s, channelId) ==
    /\ s \in DOMAIN sockets
    /\ sockets[s].open
    /\ sockets[s].leave.pc = "idle"
    /\ VoiceSent < MaxVoice
    /\ sockets' = [sockets EXCEPT
         ![s].voices = @ + 1,
         ![s].voiceAck = IF ~MapHas(userSessions, s) THEN "UNAUTHORIZED"
                         ELSE IF channelId = 0 THEN "INVALID_REQUEST" ELSE "none",
         ![s].leave = IF MapHas(userSessions, s) /\ channelId # 0
                        THEN [NoLeave EXCEPT !.pc = "update", !.channelId = channelId,
                                             !.session = userSessions[s], !.left_at = clock]
                        ELSE NoLeave]
    /\ UNCHANGED <<userSessions, serverOnlineUsers, emitted, voice_sessions, messages, clock>>
    /\ UNCHANGED dawVars

\* "Mark voice session as ended"; a refused update is caught: VOICE_ERROR
LeaveUpdate(s) ==
    /\ s \in DOMAIN sockets
    /\ sockets[s].leave.pc = "update"
    /\ LET closed == CloseChannelSessions(voice_sessions, sockets[s].leave.session.userId,
                                          sockets[s].leave.channelId, sockets[s].leave.left_at)
       IN  IF Refused(closed)
             THEN /\ sockets' = [sockets EXCEPT ![s].leave = NoLeave, ![s].voiceAck = "VOICE_ERROR"]
                  /\ UNCHANGED voice_sessions
             ELSE /\ voice_sessions' = closed
                  /\ sockets' = [sockets EXCEPT ![s].leave.pc = "roster"]
    /\ UNCHANGED <<userSessions, serverOnlineUsers, emitted, messages, clock>>
    /\ UNCHANGED dawVars

\* the roster query of the leave handler is run by the store
LeaveRoster(s) ==
    /\ s \in DOMAIN sockets
    /\ sockets[s].leave.pc = "roster"
    /\ sockets' = [sockets EXCEPT
         ![s].leave.pc = "emit",
         ![s].leave.participants = Participants(voice_sessions, sockets[s].leave.channelId)]
    /\ UNCHANGED <<userSessions, serverOnlineUsers, emitted, voice_sessions, messages, clock>>
    /\ UNCHANGED dawVars

\* the roster has returned: "Broadcast updated participants", then the
\* acknowledgement
LeaveBroadcast(s) ==
    /\ s \in DOMAIN sockets
    /\ sockets[s].leave.pc = "emit"
    /\ emitted' = Append(emitted,
          VoiceParticipants(sockets[s].leave.session.serverId, sockets[s].leave.channelId,
                            sockets[s].leave.participants))
    /\ sockets' = [sockets EXCEPT ![s].leave = NoLeave, ![s].voiceAck = "success"]
    /\ UNCHANGED <<userSessions, serverOnlineUsers, voice_sessions, messages, clock>>
    /\ UNCHANGED dawVars

\* GET /voice/participants/:serverId and getVoiceParticipants: the voice
\* channels of the server, each with the participants of its open sessions
VoiceChannelsOf(serverId) ==
    {ch \in channels : ch.server_id = serverId /\ ch.type = "voice"}
getVoiceParticipants(table, serverId) ==
    {[id |-> ch.id, participants |-> Participants(table, ch.id)] : ch \in VoiceChannelsOf(serverId)}

\* Two sockets have connected and authenticated on server 1, socket 1 as
\* alice; f gives the user of each. Alice has joined voice channel 1 k times
\* before, at time 0, and not left it.
Tabs == {1, 2}
EarlierJoins(k) ==
    [i \in 1..k |-> [id |-> i, channel_id |-> 1, user_id |-> "alice",
                     joined_at |-> 0, left_at |-> NullTime]]
Authenticated(f, k) ==
    /\ userSessions = [s \in Tabs |-> [userId |-> f[s], serverId |-> 1]]
    /\ serverOnlineUsers =
         MapSet(<<>>, 1, [u \in {f[s] : s \in Tabs} |-> Cardinality({s \in Tabs : f[s] = u})])
    /\ sockets = [s \in Tabs |->
                    [NewSocket EXCEPT !.auths = 1, !.ack = "success", !.rooms = {Room(1)},
                                      !.sync = {f[t] : t \in 1..s}]]
    /\ emitted = [i \in 1..Cardinality({f[s] : s \in Tabs}) |->
                    UserOnline(1, IF i = 1 THEN f[1]
                                  ELSE CHOOSE u \in {f[s] : s \in Tabs} : u # f[1])]
                 \o [i \in 1..k |->
                       VoiceParticipants(1, 1, Participants(EarlierJoins(i), 1))]
    /\ voice_sessions = EarlierJoins(k)
    /\ messages = <<>>
    /\ clock = 0

InitVoice ==
    /\ DawQuiet
    /\ \E f \in [Tabs -> UserIds], k \in 0..MaxStart : f[1] = "alice" /\ Authenticated(f, k)

NextVoice ==
    \/ \E s \in Tabs, ch \in ChannelIds : VoiceJoin(s, ch)
    \/ \E s \in Tabs : JoinChannel(s)
    \/ \E s \in Tabs : JoinInsert(s)
    \/ \E s \in Tabs : JoinRoster(s)
    \/ \E s \in Tabs : JoinBroadcast(s)
    \/ \E s \in Tabs : VoiceLeave(s, 1)
    \/ \E s \in Tabs : LeaveUpdate(s)
    \/ \E s \in Tabs : LeaveRoster(s)
    \/ \E s \in Tabs : LeaveBroadcast(s)
    \/ \E s \in Tabs : Disconnect(s)
    \/ \E s \in Tabs : DisconnectCleanup(s)

SpecVoice == InitVoice /\ [][NextVoice]_vars

\* The same handlers on socket 1 alone while the clock advances: the time a
\* handler puts in a query is read when the query is built, the store runs the
\* query later.
NextVoiceClock ==
    \/ Tick
    \/ \E ch \in ChannelIds : VoiceJoin(1, ch)
    \/ JoinChannel(1)
    \/ JoinInsert(1)
    \/ JoinRoster(1)
    \/ JoinBroadcast(1)
    \/ VoiceLeave(1, 1)
    \/ LeaveUpdate(1)
    \/ LeaveRoster(1)
    \/ LeaveBroadcast(1)
    \/ Disconnect(1)
    \/ DisconnectCleanup(1)

SpecVoiceClock == InitVoice /\ [][NextVoiceClock]_vars

\* ------------------------------------------------------------- messages
MaxMessages == 2     \* message:send events sent in one run

\* what a client may send: a content of blanks only, one with blanks around
\* it; a channel of the server and one that is not; a time of its own or none
Contents == {" ", " hi "}
Trim(content) == CASE content = " " -> ""
                   [] content = " hi " -> "hi"
                   [] OTHER -> content
ClientTime == 5
SendChannels == {2, 3}

MessagesSent == LET RECURSIVE Sum(_)
                    Sum(n) == IF n = 0 THEN 0 ELSE sockets[n].sends + Sum(n - 1)
                IN  Sum(Len(sockets))

\* .where("id", channelId).andWhere("server_id", session.serverId)
ServerChannel(channelId, serverId) ==
    \E ch \in channels : ch.id = channelId /\ ch.server_id = serverId

\* io.to(`server:${session.serverId}`).emit("message:new", ...): id and
\* createdAt are those of the row the insert returned
MessageNew_ClientStamp(send) ==
    [room |-> Room(send.session.serverId), event |-> "message:new",
     payload |-> [id |-> send.id, channelId |-> send.channelId,
                  content |-> Trim(send.content),
                  createdAt |-> IF send.stamp # NullTime THEN send.stamp ELSE send.createdAt,
                  user |-> [id |-> send.session.userId,
                            username |-> users[send.session.userId].username,
                            displayName |-> users[send.session.userId].display_name]]]
MessageNew(send) ==
    [room |-> Room(send.session.serverId), event |-> "message:new",
     payload |-> [id |-> send.id, channelId |-> send.channelId,
                  content |-> Trim(send.content), createdAt |-> send.createdAt,
                  user |-> [id |-> send.session.userId,
                            username |-> users[send.session.userId].username,
                            displayName |-> users[send.session.userId].display_name]]]

\* socket.on("message:send"): the session, the content, then the channel
\* query is sent; stamp is a time the client has put in its data
MessageSend(s, channelId, content, stamp) ==
    /\ s \in DOMAIN sockets
    /\ sockets[s].open
    /\ sockets[s].send.pc = "idle"
    /\ MessagesSent < MaxMessages
    /\ sockets' = [sockets EXCEPT
         ![s].sends = @ + 1,
         ![s].sendAck = IF ~MapHas(userSessions, s) THEN "UNAUTHORIZED"
                        ELSE IF Trim(content) = "" THEN "INVALID_MESSAGE" ELSE "none",
         ![s].send = IF MapHas(userSessions, s) /\ Trim(content) # ""
                       THEN [NoSend EXCEPT !.pc = "channel", !.channelId = channelId,
                                           !.session = userSessions[s],
                                           !.content = content, !.stamp = stamp]
                       ELSE NoSend]
    /\ UNCHANGED <<userSessions, serverOnlineUsers, emitted, voice_sessions, messages, clock>>
    /\ UNCHANGED dawVars

\* "Verify user is a member of the channel's server"; the insert is sent
MessageChannel(s) ==
    /\ s \in DOMAIN sockets
    /\ sockets[s].send.pc = "channel"
    /\ IF ServerChannel(sockets[s].send.channelId, sockets[s].send.session.serverId)
         THEN sockets' = [sockets EXCEPT ![s].send.pc = "insert"]
         ELSE sockets' = [sockets EXCEPT ![s].send = NoSend, ![s].sendAck = "FORBIDDEN"]
    /\ UNCHANGED <<userSessions, serverOnlineUsers, emitted, voice_sessions, messages, clock>>
    /\ UNCHANGED dawVars

\* "Save message to database": the store commits the row, giving it its id and
\* created_at; the returned row is on its way to the handler
MessageInsert(s) ==
    /\ s \in DOMAIN sockets
    /\ sockets[s].send.pc = "insert"
    /\ messages' = Append(messages,
          [id |-> Len(messages) + 1, channel_id |-> sockets[s].send.channelId,
           user_id |-> sockets[s].send.session.userId,
           content |-> Trim(sockets[s].send.content), created_at |-> clock])
    /\ sockets' = [sockets EXCEPT ![s].send.pc = "returning",
                                  ![s].send.id = Len(messages) + 1,
                                  ![s].send.createdAt = clock]
    /\ UNCHANGED <<userSessions, serverOnlineUsers, emitted, voice_sessions, clock>>
    /\ UNCHANGED dawVars

\* the insert has returned: "Broadcast to all users in that server", then the
\* acknowledgement
MessageBroadcast(s) ==
    /\ s \in DOMAIN sockets
    /\ sockets[s].send.pc = "returning"
    /\ emitted' = Append(emitted, MessageNew(sockets[s].send))
    /\ sockets' = [sockets EXCEPT ![s].send = NoSend, ![s].sendAck = "success"]
    /\ UNCHANGED <<userSessions, serverOnlineUsers, voice_sessions, messages, clock>>
    /\ UNCHANGED dawVars

\* two authenticated sockets send messages while time passes
InitChat ==
    /\ DawQuiet
    /\ \E f \in [Tabs -> UserIds] : f[1] = "alice" /\ Authenticated(f, 0)

NextChat ==
    \/ Tick
    \/ \E s \in Tabs, ch \in SendChannels, content \in Contents, stamp \in {NullTime, ClientTime} :
          MessageSend(s, ch, content, stamp)
    \/ \E s \in Tabs : MessageChannel(s)
    \/ \E s \in Tabs : MessageInsert(s)
    \/ \E s \in Tabs : MessageBroadcast(s)

SpecChat == InitChat /\ [][NextChat]_vars

\* ------------------------------------ messages posted through the route
\* (src/src/routes/channels.ts, POST /channels/:channelId/messages)
BadRequest == [status |-> 400, error |-> "BAD_REQUEST"]
Forbidden == [status |-> 403, error |-> "FORBIDDEN"]
MessagePosted(id) == [status |-> 200, messageId |-> id]

\* requireChannelMember: channels -> servers -> memberships
ChannelMember(channelId, userId) ==
    \E ch \in channels : ch.id = channelId /\ <<userId, ch.server_id>> \in server_memberships

\* the request of a logged-in user arrives: requireAuth passes, the
\* membership query of requireChannelMember is sent
PostMessage(c, userId, channelId, content) ==
    /\ Settled(c)
    /\ \A d \in Clients : d < c => ~Settled(d)
    /\ batchNo < MaxBatches
    /\ batchNo' = batchNo + 1
    /\ req' = [req EXCEPT ![c] = [pc |-> "member", route |-> "message", userId |-> userId,
                                  channelId |-> channelId, content |-> content, res |-> NoRes]]
    /\ UNCHANGED <<projects, project_snapshot, project_ops>>
    /\ UNCHANGED <<archived, project_names, rtVars>>

\* no row: 403; else next(), the route checks the content and sends the insert
PostMember(c) ==
    /\ req[c].pc = "member"
    /\ IF ~ChannelMember(req[c].channelId, req[c].userId)
         THEN Respond(c, Forbidden)
         ELSE IF Trim(req[c].content) = ""
                THEN Respond(c, BadRequest)
                ELSE req' = [req EXCEPT ![c].pc = "insertMessage"]
    /\ UNCHANGED <<projects, project_snapshot, project_ops, batchNo>>
    /\ UNCHANGED <<archived, project_names, rtVars>>

\* the insert commits and returns the id: res.json({ messageId: row.id })
PostInsert(c) ==
    /\ req[c].pc = "insertMessage"
    /\ messages' = Append(messages,
          [id |-> Len(messages) + 1, channel_id |-> req[c].channelId,
           user_id |-> req[c].userId,
           content |-> Trim(req[c].content), created_at |-> clock])
    /\ Respond(c, MessagePosted(Len(messages) + 1))
    /\ UNCHANGED <<projects, project_snapshot, project_ops, batchNo>>
    /\ UNCHANGED <<archived, project_names>>
    /\ UNCHANGED <<userSessions, serverOnlineUsers, sockets, emitted, voice_sessions, clock>>

\* two authenticated sockets are in the room; messages come through the
\* first socket and through the route
InitPost ==
    /\ DawQuiet
    /\ \E f \in [Tabs -> UserIds] : f[1] = "alice" /\ Authenticated(f, 0)

NextPost ==
    \/ \E c \in Clients, userId \in UserIds, ch \in SendChannels, content \in Contents :
          PostMessage(c, userId, ch, content)
    \/ \E c \in Clients : PostMember(c)
    \/ \E c \in Clients : PostInsert(c)
    \/ \E s \in {1}, ch \in SendChannels, content \in Contents :
          MessageSend(s, ch, content, NullTime)
    \/ \E s \in {1} : MessageChannel(s)
    \/ \E s \in {1} : MessageInsert(s)
    \/ \E s \in {1} : MessageBroadcast(s)

SpecPost == InitPost /\ [][NextPost]_vars

\* --------------------------------------------------- the shared project
SharedName == "Shared DAW"

\* knex('projects').where('name', 'Shared DAW'): the rows the query matches;
\* .first() takes one of them, the query gives no order
SharedProjects(table, names) == {p \in table : names[p] = SharedName}

\* id BIGSERIAL: the next id of the sequence, within the ids of the model
NextProjectId(table) == IF table = {} THEN 1 ELSE SetMax(table) + 1

SharedFound(p) == [status |-> 200, id |-> p, name |-> SharedName]
NoUsersFound == [status |-> 500, error |-> "NO_USERS_FOUND"]

\* GET /shared-daw: the select by name is sent
GetSharedDaw(c) ==
    /\ Settled(c)
    /\ \A d \in Clients : d < c => ~Settled(d)
    /\ batchNo < MaxBatches
    /\ batchNo' = batchNo + 1
    /\ req' = [req EXCEPT ![c] = [IdleReq EXCEPT !.pc = "findShared", !.route = "shared"]]
    /\ UNCHANGED <<projects, project_snapshot, project_ops>>
    /\ UNCHANGED <<archived, project_names, rtVars>>

\* "Look for a project with name 'Shared DAW'"
FindShared(c) ==
    /\ req[c].pc = "findShared"
    /\ IF SharedProjects(projects, project_names) = {}
         THEN req' = [req EXCEPT ![c].pc = "adminUser"]
         ELSE \E p \in SharedProjects(projects, project_names) : Respond(c, SharedFound(p))
    /\ UNCHANGED <<projects, project_snapshot, project_ops, batchNo>>
    /\ UNCHANGED <<archived, project_names, rtVars>>

\* "use first admin user or system": the first user by id
FindAdmin(c) ==
    /\ req[c].pc = "adminUser"
    /\ IF DOMAIN users = {}
         THEN Respond(c, NoUsersFound)
         ELSE req' = [req EXCEPT ![c].pc = "createShared"]
    /\ UNCHANGED <<projects, project_snapshot, project_ops, batchNo>>
    /\ UNCHANGED <<archived, project_names, rtVars>>

\* the transaction commits: the project row and its snapshot at version 0
CreateShared(c) ==
    /\ req[c].pc = "createShared"
    /\ LET id == NextProjectId(projects)
       IN  /\ id \in ProjectIds
           /\ projects' = projects \cup {id}
           /\ project_names' = [p \in projects \cup {id} |->
                                   IF p = id THEN SharedName ELSE project_names[p]]
           /\ project_snapshot' = [project_snapshot EXCEPT ![id] = SnapshotRow(id)]
           /\ Respond(c, SharedFound(id))
    /\ UNCHANGED <<project_ops, batchNo>>
    /\ UNCHANGED <<archived, rtVars>>

\* a name a client gives its own project
OtherName == "song"

ProjectCreated(p, name) == [status |-> 200, id |-> p, name |-> name]

\* POST /: the body's name is a string and the session has a user; the
\* transaction is sent
PostProject(c) ==
    /\ Settled(c)
    /\ \A d \in Clients : d < c => ~Settled(d)
    /\ batchNo < MaxBatches
    /\ batchNo' = batchNo + 1
    /\ req' = [req EXCEPT ![c] = [IdleReq EXCEPT !.pc = "createProject", !.route = "create"]]
    /\ UNCHANGED <<projects, project_snapshot, project_ops>>
    /\ UNCHANGED <<archived, project_names, rtVars>>

\* the transaction commits: the project row and its snapshot at version 0
CreateProject(c) ==
    /\ req[c].pc = "createProject"
    /\ LET id == NextProjectId(projects)
       IN  /\ id \in ProjectIds
           /\ projects' = projects \cup {id}
           /\ project_names' = [p \in projects \cup {id} |->
                                   IF p = id THEN OtherName ELSE project_names[p]]
           /\ project_snapshot' = [project_snapshot EXCEPT ![id] = SnapshotRow(id)]
           /\ Respond(c, ProjectCreated(id, OtherName))
    /\ UNCHANGED <<project_ops, batchNo>>
    /\ UNCHANGED <<archived, rtVars>>

\* no project yet, or one: a client's own or the shared one
InitShared ==
    /\ \E table \in {{}, {1}} : \E name \in {OtherName, SharedName} :
          /\ projects = table
          /\ project_names = [p \in table |-> name]
          /\ project_snapshot = [p \in ProjectIds |-> IF p \in table THEN SnapshotRow(p) ELSE NoRow]
    /\ project_ops = <<>>
    /\ req = [c \in Clients |-> IdleReq]
    /\ batchNo = 0
    /\ archived = 0
    /\ RtQuiet

NextShared ==
    \/ \E c \in Clients : GetSharedDaw(c)
    \/ \E c \in Clients : FindShared(c)
    \/ \E c \in Clients : FindAdmin(c)
    \/ \E c \in Clients : CreateShared(c)
    \/ \E c \in Clients : PostProject(c)
    \/ \E c \in Clients : CreateProject(c)

SpecShared == InitShared /\ [][NextShared]_vars

\* ================================================================ claims
\* what the claims speak of
IsSubmit(c) == req[c].route = "submit"
InFlight(c) == req[c].pc \notin {"idle", "done"}
Leaves(c, label) == req[c].pc = label /\ req'[c].pc # label
Raced(c) ==
    /\ req[c].pc = "done" /\ req[c].res.status = 409
    /\ req[c].res.message = "Another client inserted operations first"
Ahead(c) ==
    /\ req[c].pc = "done" /\ req[c].res.status = 409
    /\ req[c].res.message = "Client version is ahead of server"
Succeeded(c) ==
    /\ IsSubmit(c) /\ Len(req[c].ops) > 0
    /\ req[c].pc = "updateSnapshot" \/ (req[c].pc = "done" /\ req[c].res.status = 200)
\* the log positions that hold operation i of the batch of c
RowsOfOp(c, i) ==
    {j \in DOMAIN project_ops :
        /\ project_ops[j].project_id = req[c].projectId
        /\ project_ops[j].op_json = req[c].ops[i]}
StoredAll(c) == \A i \in DOMAIN req[c].ops : RowsOfOp(c, i) # {}
StoredNone(c) == \A i \in DOMAIN req[c].ops : RowsOfOp(c, i) = {}
\* the batch of c lies in the log in batch order at the versions v+1 .. v+len
StoredFrom(c, v) ==
    \A i \in DOMAIN req[c].ops :
        /\ Cardinality(RowsOfOp(c, i)) = 1
        /\ \A j \in RowsOfOp(c, i) : project_ops[j].version_int = v + i
Claimed(c) == (req[c].currentVersion + 1)..(req[c].currentVersion + Len(req[c].ops))
StoreUnchanged == project_ops' = project_ops /\ project_snapshot' = project_snapshot

\* C1: once no submission for a document is in flight, the versions of its
\* stored operations are exactly 1..V, V the version of its snapshot row, with
\* no gap, no duplicate and nothing above V.
C1_SnapshotCountsLog ==
    \A p \in ProjectIds :
        (/\ project_snapshot[p] # NoRow
         /\ \A c \in Clients : ~(IsSubmit(c) /\ InFlight(c) /\ req[c].projectId = p))
        => /\ VersionsOf(project_ops, p) = 1..project_snapshot[p].version_int
           /\ Len(OpsOf(project_ops, p)) = project_snapshot[p].version_int

\* C2: no two stored operations of a document share a version, and no two
\* submissions to a document both succeed on overlapping version claims.
C2_VersionLinearizable ==
    /\ \A i, j \in DOMAIN project_ops :
          (/\ i # j
           /\ project_ops[i].project_id = project_ops[j].project_id)
          => project_ops[i].version_int # project_ops[j].version_int
    /\ \A c, d \in Clients :
          (c # d /\ Succeeded(c) /\ Succeeded(d) /\ req[c].projectId = req[d].projectId)
          => Claimed(c) \cap Claimed(d) = {}

\* two submissions claimed the same versions; one stored them, the other was refused
C2_Witness ==
    \E c, d \in Clients :
        /\ c # d /\ Succeeded(c) /\ IsSubmit(d) /\ Raced(d)
        /\ req[c].projectId = req[d].projectId
        /\ req[c].currentVersion = req[d].currentVersion

\* ---- C3, under SpecRace
FirstTry(c) == IsSubmit(c) /\ ~req[c].resubmit
PastInsert(c) ==
    \/ req[c].pc \in {"maxOpRetry", "updateSnapshot"}
    \/ req[c].pc = "done" /\ req[c].res.status = 200
    \/ Raced(c)
Stored(c) == req[c].pc = "updateSnapshot" \/ (req[c].pc = "done" /\ req[c].res.status = 200)
StartVersion == Cardinality({j \in DOMAIN project_ops : project_ops[j].op_json.clientId = 0})

C4_FutureBaseRejected ==
    [][\A c \in Clients :
          /\ (IsSubmit(c) /\ Leaves(c, "project")) => StoreUnchanged
          /\ (/\ Leaves(c, "maxOp")
              /\ req[c].baseVersion > HighWater(project_ops, req[c].projectId))
             => /\ req'[c].pc = "done"
                /\ req'[c].res.status = 409
                /\ req'[c].res.error = "VERSION_CONFLICT"
                /\ req'[c].res.serverVersion = HighWater(project_ops, req[c].projectId)
                /\ StoreUnchanged]_vars

C4_Witness ==
    \E c \in Clients :
        /\ Ahead(c) /\ req[c].res.serverVersion = 1 /\ req[c].baseVersion = 2
        /\ Len(req[c].ops) > 0

\* C5: a submission with baseVersion at or below the current version V is let
\* through however stale baseVersion is, and its operations are stored in batch
\* order at V+1 .. V+len(ops), whatever baseVersion was.
C5_StaleBaseAppends ==
    [][\A c \in Clients :
          LET p == req[c].projectId
              V == HighWater(project_ops, p)
              rows == [i \in DOMAIN req[c].ops |->
                          [project_id |-> p, version_int |-> V + i, op_json |-> req[c].ops[i]]]
          IN  /\ (Leaves(c, "maxOp") /\ req[c].baseVersion <= V)
                 => /\ req'[c].res.status # 409
                    /\ req'[c].currentVersion = V
                    /\ Len(req[c].ops) > 0 => req'[c].pc = "insert"
              /\ (Leaves(c, "insert") /\ req[c].currentVersion = V)
                 => project_ops' = project_ops \o rows
              /\ (Leaves(c, "insert") /\ project_ops' # project_ops)
                 => project_ops' = project_ops \o rows]_vars

\* a batch of two sent with a baseVersion behind the log has been stored
C5_Witness ==
    \E c \in Clients :
        /\ Succeeded(c) /\ Len(req[c].ops) = 2
        /\ req[c].baseVersion < req[c].currentVersion
        /\ StoredFrom(c, req[c].currentVersion)

\* C6: a submission answered VersionConflict, or whose append met a duplicate
\* version, has stored none of its operations and has not written the snapshot;
\* a submission that succeeds has stored all of them.
C6_AllOrNothing ==
    /\ [](\A c \in Clients :
            IsSubmit(c) =>
              /\ StoredNone(c) \/ StoredAll(c)
              /\ (req[c].pc = "maxOpRetry" \/ (req[c].pc = "done" /\ req[c].res.status = 409))
                 => StoredNone(c)
              /\ Succeeded(c) => StoredFrom(c, req[c].currentVersion))
    /\ [][\A c \in Clients :
            (req'[c] # req[c] /\ project_snapshot' # project_snapshot)
            => Succeeded(c) /\ req'[c].res.status = 200]_vars

\* an append of two operations failed on its first version only
C6_Witness ==
    \E c \in Clients :
        /\ req[c].pc = "maxOpRetry" /\ Len(req[c].ops) = 2
        /\ HighWater(project_ops, req[c].projectId) = req[c].currentVersion + 1

\* C7: a successful non-empty submission returns as newVersion the version of
\* the last operation of its batch and as appliedCount the batch length, and
\* sets the snapshot version to that newVersion, the high-water mark of the log.
C7_SnapshotSetToHighWater ==
    [][\A c \in Clients :
          (Leaves(c, "updateSnapshot") /\ project_snapshot[req[c].projectId] # NoRow)
          => LET p == req[c].projectId
                 n == Len(req[c].ops)
             IN  /\ req'[c].res.status = 200
                 /\ req'[c].res.appliedCount = n
                 /\ \A j \in RowsOfOp(c, n) :
                       project_ops[j].version_int = req'[c].res.newVersion
                 /\ project_snapshot'[p].version_int = req'[c].res.newVersion
                 /\ req'[c].res.newVersion = HighWater(project_ops', p)]_vars

\* C8: in every state the i-th stored operation of a document has version i:
\* the versions of a log are 1..max without a gap, in the order of their storing.
C8_LogIsIndexed ==
    \A p \in ProjectIds :
        /\ \A i \in DOMAIN OpsOf(project_ops, p) : OpsOf(project_ops, p)[i].version_int = i
        /\ VersionsOf(project_ops, p) = 1..HighWater(project_ops, p)

\* a log of two operations while one submission has lost a race and another
\* is between its append and its snapshot update
C8_Witness ==
    /\ Len(OpsOf(project_ops, 1)) >= 2
    /\ \E c, d \in Clients : req[c].pc = "maxOpRetry" /\ req[d].pc = "updateSnapshot"

\* C9: no step lowers the version held in a document's snapshot row.
C9_SnapshotVersionMonotone ==
    [][\A p \in ProjectIds :
          project_snapshot[p] # NoRow
          => /\ project_snapshot'[p] # NoRow
             /\ project_snapshot'[p].version_int >= project_snapshot[p].version_int]_vars

\* C10: an empty batch with baseVersion at or below the current version of an
\* existing document is answered newVersion = current version, appliedCount 0,
\* and neither an operation nor the snapshot is written.
C10_EmptyBatchNoOp ==
    [][\A c \in Clients :
          (/\ IsSubmit(c) /\ Len(req[c].ops) = 0 /\ req'[c] # req[c] /\ InFlight(c))
          => /\ StoreUnchanged
             /\ (/\ Leaves(c, "maxOp")
                 /\ req[c].baseVersion <= HighWater(project_ops, req[c].projectId))
                => /\ req'[c].pc = "done"
                   /\ req'[c].res = Applied(HighWater(project_ops, req[c].projectId), 0)]_vars

C10_Witness ==
    \E c \in Clients :
        /\ IsSubmit(c) /\ Len(req[c].ops) = 0 /\ req[c].pc = "done"
        /\ req[c].res = Applied(2, 0) /\ req[c].baseVersion = 1
        /\ project_snapshot[req[c].projectId].version_int = 2

\* C13: a VersionConflict is recoverable. A client that was answered
\* VERSION_CONFLICT and sends the same batch again with baseVersion set to the
\* serverVersion it was told, while no other submission is in progress, is
\* answered 200, whatever the document's current version.
C13_ConflictRecoverable ==
    \A c \in Clients :
        (/\ req[c].resubmit /\ req[c].pc = "done"
         /\ \A d \in Clients \ {c} : req[d].pc = "idle")
        => req[c].res.status = 200

\* C11: a submission against a document whose snapshot row is absent fails
\* with a not-found error and stores no operation: no step of a submission
\* taken while the row is absent writes the log, and none answers anything
\* but 404.
C11_MissingDocumentRejected ==
    [][\A c \in Clients :
          (/\ IsSubmit(c) /\ InFlight(c) /\ req'[c] # req[c]
           /\ project_snapshot[req[c].projectId] = NoRow)
          => /\ project_ops' = project_ops
             /\ req'[c].pc = "done" => req'[c].res.status = 404]_vars

\* what the claims about reading speak of
IsRead(c) == req[c].route = "ops"
ReadDone(c) == IsRead(c) /\ req[c].pc = "done" /\ req[c].res.status = 200
RowsOfProject(table, projectId) == {j \in DOMAIN table : table[j].project_id = projectId}
\* operations holds every row of the project once, lower versions first
AllAscending(operations, table, projectId) ==
    /\ Len(operations) = Cardinality(RowsOfProject(table, projectId))
    /\ \A a \in RowsOfProject(table, projectId) :
          \E i \in DOMAIN operations : operations[i] = table[a].op_json
    /\ \A i, j \in DOMAIN operations :
          i < j => \E a, b \in RowsOfProject(table, projectId) :
                      /\ table[a].op_json = operations[i]
                      /\ table[b].op_json = operations[j]
                      /\ table[a].version_int < table[b].version_int

\* C14: reading the operations of an existing document returns all its stored
\* operations, lower versions first, and the highest stored version (0 when
\* there is none); no step of a read changes the store; two reads that report
\* the same version (nothing was appended between them) hold identical
\* sequences of operations.
C14_ReadReturnsLog ==
    /\ [](\A c, d \in Clients :
            (/\ ReadDone(c) /\ ReadDone(d)
             /\ req[c].projectId = req[d].projectId
             /\ req[c].res.version = req[d].res.version)
            => req[c].res.operations = req[d].res.operations)
    /\ [][\A c \in Clients :
            (IsRead(c) /\ InFlight(c) /\ req'[c] # req[c])
            => /\ StoreUnchanged
               /\ (Leaves(c, "selectOps"))
                  => /\ req'[c].pc = "done" /\ req'[c].res.status = 200
                     /\ AllAscending(req'[c].res.operations, project_ops, req[c].projectId)
                     /\ req'[c].res.version = HighWater(project_ops, req[c].projectId)]_vars

\* two reads that overlapped hold the same log of at least two operations
C14_Witness ==
    \E c, d \in Clients :
        /\ c # d /\ ReadDone(c) /\ ReadDone(d)
        /\ req[c].res.version = req[d].res.version
        /\ Len(req[c].res.operations) >= 1
        /\ req[c].res.version = Len(req[c].res.operations)

\* replay: the server stores operations as opaque payloads; applying one to a
\* project state records it in the state and counts it
ApplyOp(state, op) == [state EXCEPT !.version = @ + 1, !.tracks = Append(@, op)]
RECURSIVE Replay(_, _)
Replay(state, operations) ==
    IF operations = <<>> THEN state
    ELSE Replay(ApplyOp(state, Head(operations)), Tail(operations))

\* C15: while no submission for a document is in progress, replaying the
\* operations an operation read returns, in version order, onto the empty
\* initial state gives the state blob stored in the document's snapshot row.
C15_ReplayGivesSnapshot ==
    \A p \in projects :
        (/\ project_snapshot[p] # NoRow
         /\ \A c \in Clients : (IsSubmit(c) /\ req[c].projectId = p) => ~InFlight(c))
        => project_snapshot[p].snapshot_json =
             Replay(InitialState(p),
                    OpsRead(p, OrderByVersion(OpsOf(project_ops, p))).operations)

\* what the claims about the snapshot read speak of
IsDaw(c) == req[c].route = "daw"

\* C16: snapshot creation is idempotent. A read of the snapshot of an
\* existing document is never answered an error, however the reads interleave;
\* while the document has no operation the answer is version 0 with the empty
\* initial state and the one snapshot row is at version 0 with that state; a
\* read that finds the row writes nothing.
C16_SnapshotCreatedOnce ==
    /\ [](\A c \in Clients :
            (IsDaw(c) /\ req[c].pc = "done" /\ req[c].projectId \in projects)
            => /\ req[c].res.status = 200
               /\ OpsOf(project_ops, req[c].projectId) = <<>>
                  => /\ req[c].res.version = 0
                     /\ req[c].res.snapshot = InitialState(req[c].projectId)
                     /\ project_snapshot[req[c].projectId] = SnapshotRow(req[c].projectId))
    /\ [][\A c \in Clients :
            (IsDaw(c) /\ req'[c] # req[c] /\ project_snapshot[req[c].projectId] # NoRow)
            => project_snapshot' = project_snapshot]_vars

\* C17: the log is append-only. A step never removes or rewrites a stored
\* row, and rows are added only by the append of a submission that goes
\* through: the rows added carry exactly the operations of its batch.
C17_LogAppendOnly ==
    [][/\ Len(project_ops') >= Len(project_ops)
       /\ SubSeq(project_ops', 1, Len(project_ops)) = project_ops
       /\ project_ops' # project_ops
          => \E c \in Clients :
                /\ IsSubmit(c) /\ Leaves(c, "insert") /\ req'[c].pc = "updateSnapshot"
                /\ [i \in 1..(Len(project_ops') - Len(project_ops)) |->
                      project_ops'[Len(project_ops) + i].op_json] = req[c].ops
                /\ \A i \in (Len(project_ops) + 1)..Len(project_ops') :
                      project_ops'[i].project_id = req[c].projectId]_vars

\* the log has grown and a read has since returned all of it
C17_Witness ==
    /\ Len(project_ops) >= 2
    /\ \E c \in Clients : ReadDone(c) /\ Len(req[c].res.operations) = Len(project_ops)

\* how far a submission has come
Rank(label) ==
    CASE label = "project" -> 1
      [] label = "maxOp" -> 2
      [] label = "insert" -> 3
      [] label = "maxOpRetry" -> 4
      [] label = "updateSnapshot" -> 4
      [] label = "done" -> 5
      [] OTHER -> 0

\* C12: every submission ends with exactly one response. Each step moves it
\* forward, so the append is tried at most once and nothing loops; it holds
\* no response until it ends and one when it has ended; the step after a
\* duplicate-version failure is one re-read of the high-water mark that
\* answers VERSION_CONFLICT with that mark and writes nothing; and every
\* submission in flight does end.
C12_SubmissionTerminates ==
    /\ [][\A c \in Clients :
            (IsSubmit(c) /\ req'[c] # req[c])
            => /\ InFlight(c) => Rank(req'[c].pc) > Rank(req[c].pc)
               /\ ~InFlight(c) => req'[c].pc = "project"
               /\ (req'[c].res # NoRes) <=> (req'[c].pc = "done")
               /\ req[c].pc = "maxOpRetry"
                  => /\ req'[c].pc = "done"
                     /\ req'[c].res.status = 409
                     /\ req'[c].res.error = "VERSION_CONFLICT"
                     /\ req'[c].res.serverVersion = HighWater(project_ops, req[c].projectId)
                     /\ StoreUnchanged]_vars
    /\ \A c \in Clients : InFlight(c) ~> (req[c].pc = "done")

\* one submission has ended on the duplicate-version path, the other stored
C12_Witness ==
    \E c, d \in Clients :
        /\ Raced(c) /\ ~req[c].resubmit
        /\ req[d].pc = "done" /\ req[d].res.status = 200 /\ StoredAll(d)

\* what the presence claims speak of
CountIn(online, serverId, userId) == CountOf(ServerMapOf(online, serverId), userId)
HasEntry(online, serverId, userId) ==
    MapHas(online, serverId) /\ MapHas(online[serverId], userId)
\* the step in which the auth handler of socket s registers the connection
Connects(s) ==
    /\ sockets[s].auth.pc = "user"
    /\ sockets'[s].auth.pc = "idle" /\ sockets'[s].ack = "success"
\* the step in which the disconnect handler of socket s uncounts the connection
Disconnects(s) == sockets[s].disconnect = "cleanup" /\ sockets'[s].disconnect = "done"
Emits(event) == emitted' = Append(emitted, event)
EmitsNothing == emitted' = emitted
OthersKept(serverId, userId) ==
    \A v \in ServerIds, u \in UserIds :
        <<v, u>> # <<serverId, userId>>
        => CountIn(serverOnlineUsers', v, u) = CountIn(serverOnlineUsers, v, u)
Times(event) == Cardinality({i \in DOMAIN emitted : emitted[i] = event})

\* C18: a connect for (room, participant) creates the entry at count 1 if it
\* is absent and otherwise adds 1 to its count, leaves the other entries as
\* they are, and emits user:online to the room exactly if the count was 0;
\* user:online is emitted by no other step.
C18_ConnectCounts ==
    [][/\ \A s \in DOMAIN sockets :
            Connects(s)
            => LET userId == sockets[s].auth.userId
                   serverId == sockets[s].auth.serverId
                   n == CountIn(serverOnlineUsers, serverId, userId)
               IN  /\ HasEntry(serverOnlineUsers, serverId, userId) <=> n >= 1
                   /\ HasEntry(serverOnlineUsers', serverId, userId)
                   /\ CountIn(serverOnlineUsers', serverId, userId) = n + 1
                   /\ OthersKept(serverId, userId)
                   /\ IF n = 0 THEN Emits(UserOnline(serverId, userId)) ELSE EmitsNothing
       /\ (emitted' # emitted /\ emitted'[Len(emitted')].event = "user:online")
          => \E s \in DOMAIN sockets : Connects(s)]_vars

\* two connects for one (room, participant) have been counted, one was announced
C18_Witness ==
    \E v \in ServerIds, u \in UserIds :
        /\ CountIn(serverOnlineUsers, v, u) = 2
        /\ Times(UserOnline(v, u)) = 1
        /\ \E s, t \in DOMAIN userSessions :
              s # t /\ userSessions[s] = userSessions[t]
                    /\ userSessions[s] = [userId |-> u, serverId |-> v]

\* C19: a disconnect for (room, participant) whose entry has count n >= 1
\* leaves count n - 1 and the other entries as they are; exactly if n - 1 = 0
\* the entry is removed and user:offline is emitted to the room, once;
\* user:offline is emitted by no other step.
C19_DisconnectCounts ==
    [][/\ \A s \in DOMAIN sockets :
            (/\ Disconnects(s)
             /\ CountIn(serverOnlineUsers, sockets[s].session.serverId,
                        sockets[s].session.userId) >= 1)
            => LET userId == sockets[s].session.userId
                   serverId == sockets[s].session.serverId
                   n == CountIn(serverOnlineUsers, serverId, userId)
               IN  /\ CountIn(serverOnlineUsers', serverId, userId) = n - 1
                   /\ OthersKept(serverId, userId)
                   /\ HasEntry(serverOnlineUsers', serverId, userId) <=> n - 1 >= 1
                   /\ IF n - 1 = 0 THEN Emits(UserOffline(serverId, userId)) ELSE EmitsNothing
       /\ (emitted' # emitted /\ emitted'[Len(emitted')].event = "user:offline")
          => \E s \in DOMAIN sockets :
                /\ Disconnects(s)
                /\ CountIn(serverOnlineUsers, sockets[s].session.serverId,
                           sockets[s].session.userId) = 1]_vars

\* two connections of one (room, participant) have gone: one user:offline
C19_Witness ==
    \E v \in ServerIds, u \in UserIds :
        /\ \E s, t \in DOMAIN sockets :
              /\ s # t
              /\ sockets[s].disconnect = "done" /\ sockets[t].disconnect = "done"
              /\ sockets[s].session = [userId |-> u, serverId |-> v]
              /\ sockets[t].session = [userId |-> u, serverId |-> v]
        /\ Times(UserOnline(v, u)) = 1
        /\ Times(UserOffline(v, u)) = 1
        /\ ~HasEntry(serverOnlineUsers, v, u)

\* C20: every entry of serverOnlineUsers has a count of at least 1, and no
\* server is kept with an empty map of users.
C20_CountsPositive ==
    \A v \in DOMAIN serverOnlineUsers :
        /\ DOMAIN serverOnlineUsers[v] # {}
        /\ \A u \in DOMAIN serverOnlineUsers[v] : serverOnlineUsers[v][u] >= 1

\* the last connection of a server has gone while another server has one
C20_Witness ==
    /\ \E v \in ServerIds, u \in UserIds : Times(UserOffline(v, u)) = 1 /\ ~MapHas(serverOnlineUsers, v)
    /\ DOMAIN serverOnlineUsers # {}

\* no auth handler and no disconnect handler is waiting on the store
NoHandlerInFlight ==
    \A s \in DOMAIN sockets : sockets[s].auth.pc = "idle" /\ sockets[s].disconnect # "cleanup"
\* the connected sockets authenticated as userId on serverId
LiveSockets(serverId, userId) ==
    {s \in DOMAIN sockets :
        /\ sockets[s].open
        /\ MapHas(userSessions, s)
        /\ userSessions[s] = [userId |-> userId, serverId |-> serverId]}

\* C21: whenever no handler is in flight, a participant is listed online for a
\* room exactly if a connected socket is authenticated as that participant in
\* that room.
C21_PresenceAccurate ==
    NoHandlerInFlight
    => \A v \in ServerIds, u \in UserIds :
          HasEntry(serverOnlineUsers, v, u) <=> LiveSockets(v, u) # {}

\* the sockets whose connect for the key has completed, and those whose
\* disconnect has
ConnectsDone(serverId, userId) ==
    {s \in DOMAIN sockets :
        \/ MapHas(userSessions, s) /\ userSessions[s] = [userId |-> userId, serverId |-> serverId]
        \/ sockets[s].disconnect = "done"
           /\ sockets[s].session = [userId |-> userId, serverId |-> serverId]}
DisconnectsDone(serverId, userId) ==
    {s \in DOMAIN sockets :
        /\ sockets[s].disconnect = "done"
        /\ sockets[s].session = [userId |-> userId, serverId |-> serverId]}

\* C22: no update of a count is lost. While every socket has authenticated at
\* most once, after N connects and M disconnects of distinct sockets for a key
\* have completed, in whatever order the handlers ran, its count is N - M; and
\* a count changes only in a connect or a disconnect step.
C22_NoLostUpdate ==
    /\ []((\A s \in DOMAIN sockets : sockets[s].auths <= 1)
          => \A v \in ServerIds, u \in UserIds :
                CountIn(serverOnlineUsers, v, u) =
                   Cardinality(ConnectsDone(v, u)) - Cardinality(DisconnectsDone(v, u)))
    /\ [][serverOnlineUsers' # serverOnlineUsers
          => \E s \in DOMAIN sockets : Connects(s) \/ Disconnects(s)]_vars

\* two sockets have connected for one key and one of them has disconnected
C22_Witness ==
    \E v \in ServerIds, u \in UserIds :
        /\ Cardinality(ConnectsDone(v, u)) = 2
        /\ Cardinality(DisconnectsDone(v, u)) = 1
        /\ CountIn(serverOnlineUsers, v, u) = 1
        /\ \A s \in DOMAIN sockets : sockets[s].auths <= 1

\* the disconnect event of socket s
Drops(s) == sockets[s].open /\ ~sockets'[s].open

\* C23: a disconnect without matching connect is a no-op. When a socket that
\* holds no session disconnects, its handler ends at once, and no count, no
\* session and no event changes; a disconnect that finds no entry for its key
\* changes no count and emits nothing.
C23_UnmatchedDisconnectNoOp ==
    [][\A s \in DOMAIN sockets :
          /\ (Drops(s) /\ ~MapHas(userSessions, s))
             => /\ sockets'[s].disconnect = "done"
                /\ UNCHANGED <<serverOnlineUsers, userSessions, emitted, voice_sessions>>
          /\ (/\ Disconnects(s)
              /\ ~HasEntry(serverOnlineUsers, sockets[s].session.serverId,
                           sockets[s].session.userId))
             => UNCHANGED <<serverOnlineUsers, emitted>>]_vars

\* a socket that never held a session has disconnected while another is online
C23_Witness ==
    \E s \in DOMAIN sockets :
        /\ sockets[s].disconnect = "done" /\ sockets[s].session = NoSession
        /\ ~MapHas(userSessions, s)
        /\ DOMAIN serverOnlineUsers # {}

\* every disconnect that uncounts finds its entry
DisconnectFindsEntry ==
    [][\A s \in DOMAIN sockets :
          Disconnects(s) => HasEntry(serverOnlineUsers, sockets[s].session.serverId,
                                     sockets[s].session.userId)]_vars

\* ------------------------------------------------------- voice claims
\* the open session rows of a participant in a channel
OpenSessions(table, channelId, userId) ==
    {i \in DOMAIN table :
        /\ table[i].channel_id = channelId /\ table[i].user_id = userId
        /\ table[i].left_at = NullTime}
\* all session rows of a participant in a channel
SessionsOf(table, channelId, userId) ==
    {i \in DOMAIN table : table[i].channel_id = channelId /\ table[i].user_id = userId}
\* the participant is listed in a roster
Listed(participants, userId) == \E i \in DOMAIN participants : participants[i].id = userId
\* the update of the leave handler of socket s has been applied in this step
LeaveApplied(s) == sockets[s].leave.pc = "update" /\ sockets'[s].leave.pc = "roster"
\* the roster query of the leave handler of socket s is run in this step
LeaveReads(s) == sockets[s].leave.pc = "roster" /\ sockets'[s].leave.pc = "emit"
\* the leave handler of socket s emits its roster in this step
LeaveEmits(s) == sockets[s].leave.pc = "emit" /\ sockets'[s].leave.pc = "idle"

\* C24: a leave closes every open session of its pair. When the update of a
\* leave is applied, no open session row remains for its channel and
\* participant, however many rows the joins before it had opened; if no row
\* has been opened for the pair when the leave reads the roster, the roster
\* does not list the participant; and the leave emits the roster it has read
\* as the channel's voice:participants event.
C24_LeaveClosesAll ==
    [][\A s \in Tabs :
          /\ LeaveApplied(s)
             => OpenSessions(voice_sessions', sockets[s].leave.channelId,
                             sockets[s].leave.session.userId) = {}
          /\ (/\ LeaveReads(s)
              /\ OpenSessions(voice_sessions, sockets[s].leave.channelId,
                              sockets[s].leave.session.userId) = {})
             => ~Listed(sockets'[s].leave.participants, sockets[s].leave.session.userId)
          /\ LeaveEmits(s)
             => emitted' = Append(emitted,
                   VoiceParticipants(sockets[s].leave.session.serverId,
                                     sockets[s].leave.channelId,
                                     sockets[s].leave.participants))]_vars

\* two joins of one participant without a leave, then a single leave: its
\* update has closed both rows and the roster it has read is without the
\* participant
C24_Witness ==
    \E s \in Tabs :
        /\ sockets[s].leave.pc = "emit"
        /\ \A t \in Tabs : sockets[t].open /\ sockets[t].leave.pc \in {"idle", "emit"}
        /\ Cardinality({t \in Tabs : sockets[t].leave.pc = "emit"}) = 1
        /\ Cardinality(SessionsOf(voice_sessions, sockets[s].leave.channelId,
                                  sockets[s].leave.session.userId)) >= 2
        /\ OpenSessions(voice_sessions, sockets[s].leave.channelId,
                        sockets[s].leave.session.userId) = {}
        /\ ~Listed(sockets[s].leave.participants, sockets[s].leave.session.userId)

\* C25: at most one open session per participant and channel. In every state,
\* for each channel and participant, at most one session row has left_at
\* unset.
C25_OneOpenSession ==
    \A ch \in ChannelIds, u \in UserIds :
        Cardinality(OpenSessions(voice_sessions, ch, u)) <= 1

\* no voice handler and no disconnect handler of any socket is running
NoVoiceHandlerInFlight ==
    \A s \in DOMAIN sockets :
        /\ sockets[s].join.pc = "idle" /\ sockets[s].leave.pc = "idle"
        /\ sockets[s].disconnect # "cleanup"
\* the connected sockets of a user
ConnectedAs(userId) ==
    {s \in DOMAIN sockets :
        sockets[s].open /\ MapHas(userSessions, s) /\ userSessions[s].userId = userId}
\* a socket has dropped, and its disconnect handler has run to its end
Dropped(s) == ~sockets[s].open /\ sockets[s].disconnect = "done"

\* C26: no session outlives its participant's sockets. Once a socket has
\* dropped and every handler has finished, however its join, leave and
\* disconnect handlers interleaved, a participant with no connected socket
\* has no open voice session.
C26_NoOrphanSession ==
    ((\E s \in DOMAIN sockets : Dropped(s)) /\ NoVoiceHandlerInFlight)
        => \A u \in UserIds :
              ConnectedAs(u) = {}
                 => \A ch \in ChannelIds : OpenSessions(voice_sessions, ch, u) = {}

\* the join, the leave handler of socket s has changed the sessions of a
\* channel and has yet to read and emit the channel's roster
JoinPending(s, channelId) ==
    sockets[s].join.pc = "roster" /\ sockets[s].join.channelId = channelId
LeavePending(s, channelId) ==
    sockets[s].leave.pc = "roster" /\ sockets[s].leave.channelId = channelId

\* C27: every change of a channel's open sessions is followed by a roster
\* event. A step that changes the set of open sessions of a channel, be it a
\* join, a leave or the closing of sessions at disconnect, is taken by a
\* handler that goes on to read the channel's open sessions and emit them as
\* a voice:participants event.
C27_ChangeEmitsRoster ==
    [][\A ch \in ChannelIds :
          OpenRows(voice_sessions', ch) # OpenRows(voice_sessions, ch)
             => \E s \in DOMAIN sockets :
                   \/ ~JoinPending(s, ch) /\ JoinPending(s, ch)'
                   \/ ~LeavePending(s, ch) /\ LeavePending(s, ch)']_vars

\* C28: a session never ends before it began. In every state, after any
\* sequence of join, leave and disconnect steps, each session row has left_at
\* unset or not earlier than joined_at.
C28_LeftAfterJoin ==
    \A i \in DOMAIN voice_sessions :
        \/ voice_sessions[i].left_at = NullTime
        \/ voice_sessions[i].left_at >= voice_sessions[i].joined_at

\* an update that would have ended a session before its start has been
\* refused, and a later one has closed the session
C28_Witness ==
    /\ \E s \in DOMAIN sockets : sockets[s].voiceAck = "VOICE_ERROR"
    /\ \E i \in DOMAIN voice_sessions :
          /\ voice_sessions[i].joined_at > 0
          /\ voice_sessions[i].left_at >= voice_sessions[i].joined_at

\* ------------------------------------------------------- message claims
\* the message:new events emitted so far, by their place in emitted
MessageEvents == {i \in DOMAIN emitted : emitted[i].event = "message:new"}
\* the insert of a send has been committed and its handler has yet to emit
Returning == {s \in DOMAIN sockets : sockets[s].send.pc = "returning"}

\* C29: one row, then one event, with the store's id and time. Every
\* message:new event carries the id, the created_at and the content of a row
\* that is in the table when it is emitted, whatever time the client sent; no
\* two events carry the same id; the rows are as many as the events plus the
\* handlers whose insert has returned nothing yet; a step that adds rows adds
\* one and emits nothing, and a send answers success in the step that emits
\* its one event.
C29_OneRowThenOneEvent ==
    /\ [](/\ \A i \in MessageEvents :
                \E j \in DOMAIN messages :
                   /\ messages[j].id = emitted[i].payload.id
                   /\ messages[j].created_at = emitted[i].payload.createdAt
                   /\ messages[j].content = emitted[i].payload.content
                   /\ messages[j].channel_id = emitted[i].payload.channelId
                   /\ messages[j].user_id = emitted[i].payload.user.id
          /\ \A i, j \in MessageEvents :
                emitted[i].payload.id = emitted[j].payload.id => i = j
          /\ Len(messages) = Cardinality(MessageEvents) + Cardinality(Returning))
    /\ [][/\ messages' # messages
             => /\ Len(messages') = Len(messages) + 1
                /\ SubSeq(messages', 1, Len(messages)) = messages
                /\ emitted' = emitted
          /\ \A s \in DOMAIN sockets :
                (sockets'[s].sendAck = "success" /\ sockets'[s] # sockets[s])
                   => /\ sockets[s].send.pc = "returning"
                      /\ Len(emitted') = Len(emitted) + 1
                      /\ emitted'[Len(emitted')].event = "message:new"
                      /\ emitted'[Len(emitted')].payload.id = sockets[s].send.id]_vars

\* two sends have succeeded, one of them after the clock had advanced: each
\* has its row and its event, the later event carrying the later time
C29_Witness ==
    /\ Returning = {}
    /\ Len(messages) = 2
    /\ Cardinality(MessageEvents) = 2
    /\ \E i \in MessageEvents : emitted[i].payload.createdAt = 1
    /\ \E s \in DOMAIN sockets : sockets[s].sendAck = "success"

\* the place of a row in the table: rows are appended as they are committed
CommitPlace(id) == CHOOSE j \in DOMAIN messages : messages[j].id = id

\* C30: within a room, message events follow the order of commit. Of any two
\* message:new events emitted to one room, the one emitted first is of the
\* row that was committed first.
C30_EmitInCommitOrder ==
    \A i, j \in MessageEvents :
        (i < j /\ emitted[i].room = emitted[j].room)
           => CommitPlace(emitted[i].payload.id) < CommitPlace(emitted[j].payload.id)

\* ------------------------------------------------------- later DAW claims
\* the duplicate-key branch of client c answers in this step
RetryAnswers(c) == req[c].pc = "maxOpRetry" /\ req'[c].pc = "done"

\* C31: the conflict of a lost race reports the re-read high-water mark. When
\* the handler of a submission whose insert failed on a duplicate key
\* answers, its response is VERSION_CONFLICT with serverVersion the highest
\* version in the project's log at that step, and that version is strictly
\* greater than the current version the submission had read.
C31_ConflictReportsHighWater ==
    [][\A c \in Clients :
          RetryAnswers(c)
             => /\ req'[c].res.status = 409
                /\ req'[c].res.error = "VERSION_CONFLICT"
                /\ req'[c].res.serverVersion = HighWater(project_ops, req[c].projectId)
                /\ req'[c].res.serverVersion > req[c].currentVersion]_vars

\* a submission has lost a race: its insert failed and it was told a version
\* above the one it had read
C31_Witness ==
    \E c \in Clients :
        /\ req[c].pc = "done" /\ req[c].route = "submit"
        /\ req[c].res.status = 409
        /\ req[c].res.message = "Another client inserted operations first"
        /\ req[c].res.serverVersion > req[c].currentVersion
        /\ req[c].res.serverVersion = HighWater(project_ops, 1)

\* C32: the snapshot never points past the end of the log. In every state,
\* submissions in flight or not, the version of a project's snapshot row is
\* at most the highest version stored in the project's log, 0 for an empty
\* log.
C32_SnapshotWithinLog ==
    \A p \in ProjectIds :
        project_snapshot[p] # NoRow
           => project_snapshot[p].version_int <= HighWater(project_ops, p)

\* a submission has appended to the log and has not updated the snapshot yet,
\* after an earlier one has moved the snapshot off 0
C32_Witness ==
    \E c \in Clients :
        /\ req[c].pc = "updateSnapshot"
        /\ project_snapshot[req[c].projectId] # NoRow
        /\ project_snapshot[req[c].projectId].version_int >= 1
        /\ project_snapshot[req[c].projectId].version_int
              < HighWater(project_ops, req[c].projectId)

\* ------------------------------------------------- later presence claims
\* every stored session belongs to a socket that is still connected
SessionsOfConnected ==
    \A s \in DOMAIN sockets : MapHas(userSessions, s) => sockets[s].open

\* C33: a socket counts once. Whenever no handler is in flight and the stored
\* sessions are those of connected sockets, the count of a room and
\* participant is the number of connected sockets whose session is that pair,
\* however often a socket has sent auth and for whichever pairs; so a socket
\* that has disconnected leaves no count behind.
C33_SocketCountsOnce ==
    (NoHandlerInFlight /\ SessionsOfConnected)
       => \A v \in ServerIds, u \in UserIds :
             CountIn(serverOnlineUsers, v, u) = Cardinality(LiveSockets(v, u))

\* the auth handler of socket s ends in this step
AuthEnds(s) == sockets[s].auth.pc # "idle" /\ sockets'[s].auth.pc = "idle"

\* C34: an auth that completes after its socket has disconnected registers
\* nothing. The step in which the auth handler of a disconnected socket ends
\* stores no session and changes no count, and a socket whose handlers have
\* all ended after its disconnect has no session.
C34_NoAuthAfterDisconnect ==
    /\ [](\A s \in DOMAIN sockets :
             (~sockets[s].open /\ sockets[s].auth.pc = "idle"
                 /\ sockets[s].disconnect # "cleanup")
                => ~MapHas(userSessions, s))
    /\ [][\A s \in DOMAIN sockets :
             (~sockets[s].open /\ AuthEnds(s))
                => UNCHANGED <<userSessions, serverOnlineUsers>>]_vars

\* the presence events emitted for a room and participant, in order
PresenceEvents(serverId, userId) ==
    SelectSeq(emitted, LAMBDA e :
        /\ e.event \in {"user:online", "user:offline"}
        /\ e.room = Room(serverId)
        /\ e.payload.userId = userId)
\* a user:offline event is emitted in this step
EmitsOffline(serverId, userId) ==
    /\ Len(emitted') = Len(emitted) + 1
    /\ emitted'[Len(emitted')] = UserOffline(serverId, userId)

\* C35: online and offline alternate. For every room and participant the
\* presence events emitted so far are online, offline, online, ... in turn,
\* beginning with online; and a step that emits offline for a participant
\* finds the participant's entry in the registry.
C35_OnlineOfflineAlternate ==
    /\ [](\A v \in ServerIds, u \in UserIds :
             \A i \in DOMAIN PresenceEvents(v, u) :
                PresenceEvents(v, u)[i].event =
                   IF i % 2 = 1 THEN "user:online" ELSE "user:offline")
    /\ [][\A v \in ServerIds, u \in UserIds :
             EmitsOffline(v, u) => HasEntry(serverOnlineUsers, v, u)]_vars

\* a participant has come online, gone offline and come online again
C35_Witness ==
    \E v \in ServerIds, u \in UserIds :
        /\ Len(PresenceEvents(v, u)) = 3
        /\ PresenceEvents(v, u)[2].event = "user:offline"
        /\ HasEntry(serverOnlineUsers, v, u)

\* ---------------------------------------------------- later voice claims
\* socket t is connected and holds a session of its participant in the
\* channel: the one voice event it has sent has succeeded and was no leave,
\* the participant's session being open
HoldsSession(t, channelId) ==
    /\ sockets[t].open /\ MapHas(userSessions, t)
    /\ sockets[t].voices = 1 /\ sockets[t].voiceAck = "success"
    /\ sockets[t].join.pc = "idle" /\ sockets[t].leave.pc = "idle"
    /\ OpenSessions(voice_sessions, channelId, userSessions[t].userId) # {}

RosterEvents(channelId) ==
    {i \in DOMAIN emitted :
        emitted[i].event = "voice:participants" /\ emitted[i].payload.channelId = channelId}
\* the participants a roster lists, and those with an open session in a channel
ListedIn(participants) == {participants[i].id : i \in DOMAIN participants}
InChannel(channelId) ==
    {u \in UserIds : OpenSessions(voice_sessions, channelId, u) # {}}

\* C37: the last roster event is right. When no socket has disconnected and
\* every join and leave handler has completed, however they interleaved, the
\* last voice:participants event emitted for a channel lists exactly the
\* participants that have an open session in it.
C37_LastRosterIsCurrent ==
    ((\A s \in DOMAIN sockets : sockets[s].open) /\ NoVoiceHandlerInFlight)
       => \A ch \in ChannelIds :
             RosterEvents(ch) # {}
                => ListedIn(emitted[SetMax(RosterEvents(ch))].payload.participants)
                      = InChannel(ch)

\* a roster lists no participant twice
EachOnce(participants) ==
    \A i, j \in DOMAIN participants : participants[i].id = participants[j].id => i = j

\* C38: a roster lists each participant at most once. In every state, after
\* any joins, leaves and disconnects, every voice:participants event emitted
\* so far and every channel of the voice-participants read lists no
\* participant twice.
C38_RosterListsOnce ==
    /\ \A i \in DOMAIN emitted :
          emitted[i].event = "voice:participants" => EachOnce(emitted[i].payload.participants)
    /\ \A v \in ServerIds :
          \A channel \in getVoiceParticipants(voice_sessions, v) : EachOnce(channel.participants)

\* ------------------------------------------------- shared project claims
\* the get-or-create requests that have been answered
SharedAnswered == {c \in Clients : req[c].route = "shared" /\ req[c].pc = "done"}

\* C39: the shared project is one. In every state, whatever requests have
\* run and however their store calls interleaved, at most one project is
\* named "Shared DAW", each such project has its snapshot row, and every
\* answered get-or-create request has returned status 200 with the id of that
\* one project.
C39_SharedSingleton ==
    /\ Cardinality(SharedProjects(projects, project_names)) <= 1
    /\ \A p \in SharedProjects(projects, project_names) : project_snapshot[p] # NoRow
    /\ \A c \in SharedAnswered :
          /\ req[c].res.status = 200
          /\ req[c].res.id \in SharedProjects(projects, project_names)

\* ------------------------------------------------- posted message claims
\* the message:new events that carry the id of a row
EventsOf(id) == {i \in MessageEvents : emitted[i].payload.id = id}
\* the handler that created the row has yet to resume on the insert's result
AwaitsHandler(id) ==
    \E s \in DOMAIN sockets : sockets[s].send.pc = "returning" /\ sockets[s].send.id = id

\* C40: every creation of a message emits message:new, whichever entry point
\* created it. For every row of messages whose creating handler has completed,
\* through the route or through the socket, exactly one message:new event
\* with the row's id has been emitted, to the room of the channel's server.
C40_EveryRowBroadcast ==
    \A j \in DOMAIN messages :
        ~AwaitsHandler(messages[j].id) =>
            /\ Cardinality(EventsOf(messages[j].id)) = 1
            /\ \A i \in EventsOf(messages[j].id) :
                  \E ch \in channels : /\ ch.id = messages[j].channel_id
                                       /\ emitted[i].room = Room(ch.server_id)

====
